---- MODULE Spec2Model ----
(***************************************************************************)
(* Model of the MetaTrader 5 adapter: the paginated historical range       *)
(* fetch (python/nautilus_mt5/data.py, python/nautilus_mt5/client.py) and  *)
(* the subscription poller of Mt5DataClient, and the order submission of   *)
(* Mt5ExecutionClient (nautilus_mt5_adapter/execution.py).                 *)
(*                                                                         *)
(* Times of the historical fetch are whole numbers of the unit of the      *)
(* handler's chunk size: days for bars (chunk 30 days), hours for ticks    *)
(* (chunk 6 hours).                                                        *)
(***************************************************************************)
EXTENDS Integers, Sequences, FiniteSets, TLC

\* ---------------------------------------------------------------- bounds
\* The time grid of the range fetch has MaxSteps + 1 points, half a chunk apart.
MaxSteps == 5

\* ------------------------------------------------------- program constants
\* chunk_size = timedelta(days=30) of the bar range fetch, in days.
BarChunkDays == 30
\* chunk_size = timedelta(hours=6) of the tick range fetch, in hours.
TickChunkHours == 6

VARIABLES
    \* --- historical range fetch
    fKind,          \* the handler that runs the fetch
    fPc,            \* "idle", "await" (chunk request in flight), "sleep", "done", "raised"
    fStart,         \* request.start
    fEnd,           \* request.end
    fCursor,        \* start_cursor / current_start
    fChunkEnd,      \* chunk_end / current_end
    fRequests,      \* the chunk requests issued so far, <<start_ts, end_ts>> each
    fOutcomes,      \* the outcome of every answered chunk request, in order
    fAcc,           \* the bars list Mt5Client accumulates before it returns
    fDelivered,     \* open times handed to the caller, in order of delivery
    fLogged,        \* indexes of the chunks for which an error was logged
    remoteBars,     \* grid indexes of the rows the remote holds
    remoteInclusive \* TRUE: the remote answers [from, to]; FALSE: [from, to)

fvars == <<fKind, fPc, fStart, fEnd, fCursor, fChunkEnd, fRequests, fOutcomes,
           fAcc, fDelivered, fLogged, remoteBars, remoteInclusive>>


VARIABLES
    conn,            \* "disconnected", "connecting", "connected", "disconnecting"
    pollIntervalMs,  \* self._config.poll_interval_ms
    subQuotes,       \* self._subscribed_quote_ticks
    subTrades,       \* self._subscribed_trade_ticks
    subBars,         \* self._subscribed_bars
    pollTask,        \* self._poll_task: 0 for None, else the task's number
    tasks,           \* every poll task created: its state and its coroutine's locals
    nextTask,        \* the number the next created task gets
    cache,           \* symbols whose instrument is in the cache
    lastTickTimes,   \* self._last_tick_times, a missing key read as 0
    emitted          \* per symbol, the time_msc of the quotes handed to _handle_data

pvars == <<conn, pollIntervalMs, subQuotes, subTrades, subBars, pollTask, tasks,
           nextTask, cache, lastTickTimes, emitted>>

VARIABLES
    xPc,        \* _submit_order: "idle", "await" (order_send in flight), "returned", "raised"
    xOrder,     \* command.order: its side and its order type
    xRequest,   \* the request handed to order_send
    xResponse,  \* what order_send came back with
    xEvents     \* the calls of _generate_order_accepted / _generate_order_rejected

xvars == <<xPc, xOrder, xRequest, xResponse, xEvents>>

VARIABLES
    rPc,       \* generate_*_reports: "idle", "await", "awaitHistory", "returned", "raised"
    rKind,     \* which generator runs: "order", "deal" or "position"
    rHistory,  \* generate_order_status_reports also fetches the order history
    rFetched,  \* the broker records fetched so far, in order
    rReports   \* the reports list

rvars == <<rPc, rKind, rHistory, rFetched, rReports>>

VARIABLES
    cPc,      \* cancel / modify handlers: "idle", "awaitOrders", "await", "returned", "raised"
    cOp,      \* "cancel", "modify", "batch" or "cancel_all"
    cClient,  \* "adapter" (nautilus_mt5_adapter) or "skeleton" (nautilus_trader/adapters/mt5)
    cCmds,    \* the venue order ids of the commands handed in, Absent for none
    cSymbol,  \* cancel_all: the symbol of command.instrument_id, "" for none
    cOrders,  \* cancel_all: the open orders orders_get came back with
    cTodo,    \* the order ids still to be sent after the request in flight
    cSent,    \* the requests handed to the broker, in order
    cError    \* what made the handler raise: "none", "command", "request"

cvars == <<cPc, cOp, cClient, cCmds, cSymbol, cOrders, cTodo, cSent, cError>>

VARIABLES
    jPc,        \* response parsing: "idle", "received", "parsed"
    jClient,    \* the client module whose _parse_response is called
    jResponse,  \* the response text handed to _parse_response
    jParsed     \* what _parse_response came back with

jvars == <<jPc, jClient, jResponse, jParsed>>

VARIABLES
    iData,         \* instrument provider: the symbol data of the last load
    iResult,       \* what _parse_instrument made of it
    iPrev,         \* its result on the call before, when the data were the same
    iClock,        \* the clock of the provider
    iInstruments   \* the names of the instruments added to the provider

ivars == <<iData, iResult, iPrev, iClock, iInstruments>>

VARIABLES
    nClient,     \* connect sequence: the data client connecting
    nPc,         \* the step awaited, or "idle", "returned", "raised"
    nExecuted,   \* the steps started in this attempt, in order
    nFailed,     \* the step of this attempt that failed, "" for none
    nConnected,  \* self._connected of the skeleton data client
    nAttempts,   \* connect attempts so far
    nDisconnect  \* the last disconnect() of the skeleton client since the last
                 \* connect: "" (none), "nothing" (no transport call),
                 \* "closed", "failed" (the websocket disconnect raised)

nvars == <<nClient, nPc, nExecuted, nFailed, nConnected, nAttempts, nDisconnect>>

VARIABLES
    kConnected,     \* skeleton execution client: self._connected
    kConnects,      \* connect() calls so far
    kPc,            \* _submit_order: "idle", "returned", "raised"
    kCommand,       \* the last command submitted
    kAfterConnect,  \* it was submitted after a connect() had returned
    kForwarded,     \* calls of the HTTP client's submit_order it made
    kReport         \* the report it generated: "", "status", "rejection"

kvars == <<kConnected, kConnects, kPc, kCommand, kAfterConnect, kForwarded, kReport>>

VARIABLES
    oSymbol,  \* the symbol of the last _subscribe_order_book_deltas, "" for none
    oSignal   \* what its caller observed: "" (not called), "returned"

ovars == <<oSymbol, oSignal>>

VARIABLES
    wHeld,  \* the subscriptions of the skeleton data client whose subscribe
            \* handler returned and whose unsubscribe handler has not
    wSent   \* the calls it made on the websocket client, in order

wvars == <<wHeld, wSent>>

vars == <<fvars, pvars, xvars, rvars, cvars, jvars, ivars, nvars, kvars, ovars, wvars>>

\* What a handler of one client leaves alone: the state of the other clients.
notFetch == <<pvars, xvars, rvars, cvars, jvars, ivars, nvars, kvars, ovars, wvars>>
notPoll == <<fvars, xvars, rvars, cvars, jvars, ivars, nvars, kvars, ovars, wvars>>
notExec == <<fvars, pvars, rvars, cvars, jvars, ivars, nvars, kvars, ovars, wvars>>
notReports == <<fvars, pvars, xvars, cvars, jvars, ivars, nvars, kvars, ovars, wvars>>
notCancel == <<fvars, pvars, xvars, rvars, jvars, ivars, nvars, kvars, ovars, wvars>>
notParse == <<fvars, pvars, xvars, rvars, cvars, ivars, nvars, kvars, ovars, wvars>>
notProvider == <<fvars, pvars, xvars, rvars, cvars, jvars, nvars, kvars, ovars, wvars>>
notConnect == <<fvars, pvars, xvars, rvars, cvars, jvars, ivars, kvars, ovars, wvars>>
notSkeleton == <<fvars, pvars, xvars, rvars, cvars, jvars, ivars, nvars, ovars, wvars>>
notDeltas == <<fvars, pvars, xvars, rvars, cvars, jvars, ivars, nvars, kvars, wvars>>
notStreams == <<fvars, pvars, xvars, rvars, cvars, jvars, ivars, kvars, ovars>>

\* ------------------------------------------------------------- helpers
Min2(a, b) == IF a <= b THEN a ELSE b

SetMin(S) == CHOOSE x \in S : \A y \in S : x <= y

RECURSIVE SortedSeq(_)
\* The elements of a finite set of integers in increasing order.
SortedSeq(S) == IF S = {} THEN <<>>
                ELSE <<SetMin(S)>> \o SortedSeq(S \ {SetMin(S)})

\* ------------------------------------------------------ historical fetch
DataKinds == {"DataBars", "DataTicks"}
ClientKinds == {"ClientRequestBars", "ClientFetchBars"}
FetchKinds == DataKinds \cup ClientKinds

\* What one chunk request can come back with.
ChunkOutcomes == {"rows", "empty", "error", "undecodable", "exception"}

\* The chunk size of each handler.
ChunkSize(kind) == IF kind = "DataTicks" THEN TickChunkHours ELSE BarChunkDays

\* The times a request bound or a remote row can take: half a chunk apart.
GridTime(kind, k) == k * (ChunkSize(kind) \div 2)
Grid(kind) == {GridTime(kind, k) : k \in 0..MaxSteps}

\* The open times of the rows the remote holds, in the unit of the handler.
RemoteTimes(kind) == {GridTime(kind, k) : k \in remoteBars}

\* copy_rates_range / copy_ticks_range of the remote: the rows between the two
\* bounds, sorted; the row sitting on the upper bound is returned by an
\* inclusive remote.
RemoteResponse(kind, from, to) ==
    SortedSeq({t \in RemoteTimes(kind) :
                 from <= t /\ (t < to \/ (remoteInclusive /\ t = to))})

\* ChunkEnd without the clamp to the end of the range.
ChunkEndUnclamped(kind, cursor, end) == cursor + ChunkSize(kind)

\* chunk_end = min(start_cursor + chunk_size, end_limit)
ChunkEnd(kind, cursor, end) == Min2(cursor + ChunkSize(kind), end)

\* The edge filter of _process_bars: rows outside [start, end) are skipped.
InStrictRange(ts_open, start, end) == ts_open >= start /\ ts_open < end

\* _process_bars: the open times of the bars handed to _handle_bars.
ProcessBars(rates, start, end) ==
    SelectSeq(rates, LAMBDA t : InStrictRange(t, start, end))

\* _process_quote_ticks / _process_trade_ticks: every row is converted.
ProcessTicks(ticks) == ticks

\* The rows Mt5Client appends to its accumulator for one chunk.
ClientRows(chunk_data) == chunk_data

\* The cursor is left where it was.
CursorStays(cursor, chunkEnd) == cursor

\* After a chunk: start_cursor = chunk_end.
AdvanceCursor(cursor, chunkEnd) == chunkEnd

\* The loop test and the issue of the next chunk request, or the end of the
\* loop: `while start_cursor < end_limit`.
IssueOrFinish(kind, cursor, end, requests) ==
    IF cursor < end
    THEN /\ fChunkEnd' = ChunkEnd(kind, cursor, end)
         /\ fRequests' = Append(requests, <<cursor, ChunkEnd(kind, cursor, end)>>)
         /\ fPc' = "await"
         /\ fDelivered' = fDelivered
    ELSE /\ fChunkEnd' = fChunkEnd
         /\ fRequests' = requests
         /\ fPc' = "done"
         \* Mt5Client returns its accumulator; Mt5DataClient has delivered per chunk.
         /\ fDelivered' = IF kind \in ClientKinds THEN fAcc ELSE fDelivered

\* Entry of a range request (start and end both given).
BeginRange(kind, start, end) ==
    /\ fPc = "idle"
    /\ start < end
    /\ fKind' = kind
    /\ fStart' = start
    /\ fEnd' = end
    /\ fCursor' = start
    /\ IssueOrFinish(kind, start, end, <<>>)
    /\ UNCHANGED <<fOutcomes, fAcc, fLogged, remoteBars, remoteInclusive>>
    /\ UNCHANGED notFetch

\* A chunk response of Mt5DataClient._request_bars and
\* _fetch_and_publish_ticks_range: the try/except around the request.
DataChunk(outcome) ==
    /\ fPc = "await"
    /\ fKind \in DataKinds
    /\ LET rows == RemoteResponse(fKind, fCursor, fChunkEnd)
           handed == IF fKind = "DataBars" THEN ProcessBars(rows, fStart, fEnd)
                     ELSE ProcessTicks(rows)
       IN  /\ fDelivered' = IF outcome = "rows" THEN fDelivered \o handed
                            ELSE fDelivered
           /\ fLogged' = IF outcome \in {"undecodable", "exception"}
                         THEN fLogged \cup {Len(fRequests)} ELSE fLogged
    /\ fOutcomes' = Append(fOutcomes, outcome)
    /\ fCursor' = AdvanceCursor(fCursor, fChunkEnd)
    /\ fPc' = "sleep"
    /\ UNCHANGED <<fKind, fStart, fEnd, fChunkEnd, fRequests, fAcc,
                   remoteBars, remoteInclusive>>
    /\ UNCHANGED notFetch

\* A chunk response of Mt5Client.request_bars and Mt5Client.fetch_bars: no
\* try/except; _parse_response raises on an "error" field and yields None for
\* an empty or undecodable text.
ClientChunk(outcome) ==
    /\ fPc = "await"
    /\ fKind \in ClientKinds
    /\ fOutcomes' = Append(fOutcomes, outcome)
    /\ IF outcome \in {"error", "exception"}
       THEN /\ fPc' = "raised"
            /\ UNCHANGED <<fCursor, fAcc>>
       ELSE /\ fPc' = "sleep"
            /\ fCursor' = AdvanceCursor(fCursor, fChunkEnd)
            /\ fAcc' = IF outcome = "rows"
                       THEN fAcc \o ClientRows(RemoteResponse(fKind, fCursor, fChunkEnd))
                       ELSE fAcc
    /\ UNCHANGED <<fKind, fStart, fEnd, fChunkEnd, fRequests, fDelivered,
                   fLogged, remoteBars, remoteInclusive>>
    /\ UNCHANGED notFetch

\* After `await asyncio.sleep(0.01)`: the next turn of the while loop.
NextChunk ==
    /\ fPc = "sleep"
    /\ IssueOrFinish(fKind, fCursor, fEnd, fRequests)
    /\ UNCHANGED <<fKind, fStart, fEnd, fCursor, fOutcomes, fAcc, fLogged,
                   remoteBars, remoteInclusive>>
    /\ UNCHANGED notFetch

FetchLocals ==
    /\ fKind = "DataBars"
    /\ fPc = "idle"
    /\ fStart = 0
    /\ fEnd = 0
    /\ fCursor = 0
    /\ fChunkEnd = 0
    /\ fRequests = <<>>
    /\ fOutcomes = <<>>
    /\ fAcc = <<>>
    /\ fDelivered = <<>>
    /\ fLogged = {}

\* No fetch has been requested; the remote holds any rows of the grid.
FetchInit ==
    /\ FetchLocals
    /\ remoteBars \in SUBSET (0..MaxSteps)
    /\ remoteInclusive \in BOOLEAN

\* No fetch has been requested; the remote holds no row, or a row at every
\* time of the grid.
FetchSparseInit ==
    /\ FetchLocals
    /\ remoteBars \in {{}, 0..MaxSteps}
    /\ remoteInclusive \in BOOLEAN

\* The fetch side of a run that never requests history.
FetchQuiet ==
    /\ FetchLocals
    /\ remoteBars = {}
    /\ remoteInclusive = FALSE


\* ===================================================== subscription poller
\* ---------------------------------------------------------------- bounds
\* Poll tasks one client creates over a run.
MaxTasks == 2
\* Poll cycles one task starts.
MaxCycles == 3
\* The remote's tick times are 0, 1000, ..., MaxTick * 1000 (time_msc).
MaxTick == 2

\* ------------------------------------------------------- program constants
\* min_interval = 0.1, in milliseconds.
MinIntervalMs == 100
\* max_interval = 5.0, in milliseconds.
MaxIntervalMs == 5000
\* asyncio.sleep(1.0) of a loop turn without subscriptions, in milliseconds.
IdleSleepMs == 1000
\* Mt5DataClientConfig.poll_interval_ms, the default.
DefaultPollIntervalMs == 1000

Symbols == {"EURUSD", "XAUUSD"}
TradeSymbols == {"EURUSD"}
BarTypes == {"EURUSD.MT5-1-MINUTE-LAST-EXTERNAL"}
TickTimes == {k * 1000 : k \in 0..MaxTick}

\* What one symbol_info_tick request of a poll cycle can come back with:
\* a tick, a tick whose conversion to a QuoteTick raises, an empty result,
\* or an exception of the request or of json.loads.
TickOutcomes == {"tick", "badtick", "empty", "exception"}

\* --- exact rationals <<numerator, denominator>>, denominator > 0
RECURSIVE Gcd(_, _)
Gcd(a, b) == IF b = 0 THEN a ELSE Gcd(b, a % b)
Abs(a) == IF a < 0 THEN -a ELSE a
Rat(n, d) == LET g == Gcd(Abs(n), d) IN <<n \div g, d \div g>>
RLeq(r, s) == r[1] * s[2] <= s[1] * r[2]
RLt(r, s) == r[1] * s[2] < s[1] * r[2]
RMax(r, s) == IF RLeq(s, r) THEN r ELSE s
RMin(r, s) == IF RLeq(r, s) THEN r ELSE s
RMul(r, n, d) == Rat(r[1] * n, r[2] * d)

\* base_interval = self._config.poll_interval_ms / 1000.0, kept in milliseconds.
BaseInterval == Rat(pollIntervalMs, 1)

\* Shrink with the factor of the other branch.
ShrinkByGrowFactor(cur) == RMax(Rat(MinIntervalMs, 1), RMul(cur, 6, 5))

\* current_interval = max(min_interval, current_interval * 0.8)
Shrink(cur) == RMax(Rat(MinIntervalMs, 1), RMul(cur, 4, 5))
\* current_interval = min(max_interval, current_interval * 1.2)
Grow(cur) == RMin(Rat(MaxIntervalMs, 1), RMul(cur, 6, 5))
\* The adaptive interval at the end of a cycle.
Adapt(cur, data_received) == IF data_received THEN Shrink(cur) ELSE Grow(cur)

\* The dedup test with `<` in place of `<=`.
AlreadyProcessedStrict(time_msc, last_time) == time_msc < last_time

\* The dedup test of _poll_quotes: `if time_msc <= last_time: continue`.
AlreadyProcessed(time_msc, last_time) == time_msc <= last_time

HasSubscriptions == subQuotes # {} \/ subTrades # {} \/ subBars # {}

\* A poll task: st is "none" (not created), "alive" or "done"; cancel: a
\* cancellation is requested; pc: "start" (no step yet), "fetch" (awaiting
\* symbol_info_tick for the head of todo) or "sleep"; todo: the rest of the
\* cycle's snapshot; received: data_received; interval: current_interval;
\* sleepMs: what the task sleeps for; turn: how its last loop turn ended,
\* "idle", "data", "quiet" or "raised"; cyc: the cycles it has started.
NoTask == [st |-> "none", cancel |-> FALSE, pc |-> "start", todo |-> <<>>,
           received |-> FALSE, interval |-> <<0, 1>>, sleepMs |-> <<0, 1>>,
           turn |-> "none", cyc |-> 0]
DoneTask == [NoTask EXCEPT !.st = "done"]
\* create_task(self._poll_loop()): current_interval starts at base_interval.
NewTask == [NoTask EXCEPT !.st = "alive", !.interval = BaseInterval]

TaskIds == 1..MaxTasks
Alive(id) == tasks[id].st = "alive"
AliveTasks == {id \in TaskIds : Alive(id)}
\* A task whose cancellation was requested and not yet delivered.
Cancelling == {id \in TaskIds : Alive(id) /\ tasks[id].cancel}

\* task.cancel(): the request; the task ends when it is next resumed.
CancelTask(ts, id) == [ts EXCEPT ![id].cancel = TRUE]

\* _start_polling_if_needed, given the subscription sets after the change.
StartPollingIfNeeded(quotes, trades, bars) ==
    IF (quotes # {} \/ trades # {} \/ bars # {}) /\ pollTask = 0
    THEN /\ nextTask <= MaxTasks
         /\ pollTask' = nextTask
         /\ tasks' = [tasks EXCEPT ![nextTask] = NewTask]
         /\ nextTask' = nextTask + 1
    ELSE UNCHANGED <<pollTask, tasks, nextTask>>

\* --- connection handlers
ConnectBegin ==
    /\ conn = "disconnected"
    /\ conn' = "connecting"
    /\ UNCHANGED <<pollIntervalMs, subQuotes, subTrades, subBars, pollTask,
                   tasks, nextTask, cache, lastTickTimes, emitted>>
    /\ UNCHANGED notPoll

\* _connect returned: initialize() and the instrument provider succeeded.
ConnectOk ==
    /\ conn = "connecting"
    /\ conn' = "connected"
    /\ UNCHANGED <<pollIntervalMs, subQuotes, subTrades, subBars, pollTask,
                   tasks, nextTask, cache, lastTickTimes, emitted>>
    /\ UNCHANGED notPoll

\* _connect raised: the error is logged and re-raised.
ConnectFail ==
    /\ conn = "connecting"
    /\ conn' = "disconnected"
    /\ UNCHANGED <<pollIntervalMs, subQuotes, subTrades, subBars, pollTask,
                   tasks, nextTask, cache, lastTickTimes, emitted>>
    /\ UNCHANGED notPoll

\* _disconnect up to `await self._client.shutdown()`.
DisconnectBegin ==
    /\ conn = "connected"
    /\ conn' = "disconnecting"
    /\ IF pollTask # 0
       THEN /\ tasks' = CancelTask(tasks, pollTask)
            /\ pollTask' = 0
       ELSE UNCHANGED <<tasks, pollTask>>
    /\ UNCHANGED <<pollIntervalMs, subQuotes, subTrades, subBars, nextTask,
                   cache, lastTickTimes, emitted>>
    /\ UNCHANGED notPoll

\* _disconnect returned.
DisconnectEnd ==
    /\ conn = "disconnecting"
    /\ conn' = "disconnected"
    /\ UNCHANGED <<pollIntervalMs, subQuotes, subTrades, subBars, pollTask,
                   tasks, nextTask, cache, lastTickTimes, emitted>>
    /\ UNCHANGED notPoll

\* --- subscription handlers
SubscribeQuoteTicks(symbol) ==
    /\ subQuotes' = subQuotes \cup {symbol}
    /\ StartPollingIfNeeded(subQuotes', subTrades, subBars)
    /\ UNCHANGED <<conn, pollIntervalMs, subTrades, subBars, cache,
                   lastTickTimes, emitted>>
    /\ UNCHANGED notPoll

UnsubscribeQuoteTicks(symbol) ==
    /\ symbol \in subQuotes
    /\ subQuotes' = subQuotes \ {symbol}
    /\ UNCHANGED <<conn, pollIntervalMs, subTrades, subBars, pollTask, tasks,
                   nextTask, cache, lastTickTimes, emitted>>
    /\ UNCHANGED notPoll

SubscribeTradeTicks(symbol) ==
    /\ subTrades' = subTrades \cup {symbol}
    /\ StartPollingIfNeeded(subQuotes, subTrades', subBars)
    /\ UNCHANGED <<conn, pollIntervalMs, subQuotes, subBars, cache,
                   lastTickTimes, emitted>>
    /\ UNCHANGED notPoll

UnsubscribeTradeTicks(symbol) ==
    /\ symbol \in subTrades
    /\ subTrades' = subTrades \ {symbol}
    /\ UNCHANGED <<conn, pollIntervalMs, subQuotes, subBars, pollTask, tasks,
                   nextTask, cache, lastTickTimes, emitted>>
    /\ UNCHANGED notPoll

SubscribeBars(bar_type) ==
    /\ subBars' = subBars \cup {bar_type}
    /\ StartPollingIfNeeded(subQuotes, subTrades, subBars')
    /\ UNCHANGED <<conn, pollIntervalMs, subQuotes, subTrades, cache,
                   lastTickTimes, emitted>>
    /\ UNCHANGED notPoll

UnsubscribeBars(bar_type) ==
    /\ bar_type \in subBars
    /\ subBars' = subBars \ {bar_type}
    /\ UNCHANGED <<conn, pollIntervalMs, subQuotes, subTrades, pollTask, tasks,
                   nextTask, cache, lastTickTimes, emitted>>
    /\ UNCHANGED notPoll

\* --- the polling task
\* The orders in which list(self._subscribed_quote_ticks) can enumerate the set.
Snapshots(S) ==
    {q \in [1..Cardinality(S) -> S] : \A i, j \in 1..Cardinality(S) :
                                         i # j => q[i] # q[j]}

\* A task goes on running after its cancellation was requested.
RunnableIgnoringCancel(id) == Alive(id)

\* A poll task can be resumed: it is alive, not cancelled, and no cancelled
\* task is still waiting for its CancelledError (the event loop resumes tasks
\* in the order their wake-ups were scheduled).
Runnable(id) == Alive(id) /\ ~tasks[id].cancel /\ Cancelling = {}

\* The end of a cycle of _poll_loop: _poll_trades yields False, the interval
\* adapts and the task sleeps for it.
EndCycle(t, cur, data_received) ==
    [t EXCEPT !.pc = "sleep", !.todo = <<>>, !.received = FALSE,
              !.interval = Adapt(cur, data_received),
              !.sleepMs = Adapt(cur, data_received),
              !.turn = IF data_received THEN "data" ELSE "quiet"]

\* A turn of `while True` of _poll_loop, from the task's first step or from a
\* sleep, up to its next await.
PollWake(id) ==
    /\ Runnable(id)
    /\ tasks[id].pc \in {"start", "sleep"}
    /\ LET t == tasks[id]
           cur == t.interval
       IN  IF ~HasSubscriptions
           THEN tasks' = [tasks EXCEPT ![id] =
                            [t EXCEPT !.pc = "sleep", !.turn = "idle",
                                      !.sleepMs = Rat(IdleSleepMs, 1)]]
           ELSE /\ t.cyc < MaxCycles
                /\ IF subQuotes # {}
                   THEN \E snap \in Snapshots(subQuotes) :
                          tasks' = [tasks EXCEPT ![id] =
                                      [t EXCEPT !.pc = "fetch", !.todo = snap,
                                                !.received = FALSE,
                                                !.turn = "none",
                                                !.cyc = t.cyc + 1]]
                   ELSE tasks' = [tasks EXCEPT ![id] =
                                    EndCycle([t EXCEPT !.cyc = t.cyc + 1], cur, FALSE)]
    /\ UNCHANGED <<conn, pollIntervalMs, subQuotes, subTrades, subBars,
                   pollTask, nextTask, cache, lastTickTimes, emitted>>
    /\ UNCHANGED notPoll

\* The exception ends the loop and with it the task.
RaisedTurnEndsTask(t) == [DoneTask EXCEPT !.pc = "sleep"]

\* `except Exception` of _poll_loop: the error is logged and the task sleeps
\* base_interval; current_interval is not touched.
RaisedTurn(t) ==
    [t EXCEPT !.pc = "sleep", !.turn = "raised", !.sleepMs = BaseInterval,
              !.cyc = t.cyc + 1]

\* A turn of the loop that raises outside the per-symbol handler of
\* _poll_quotes: `except Exception` logs and sleeps base_interval.
PollCycleRaises(id) ==
    /\ Runnable(id)
    /\ tasks[id].pc \in {"start", "sleep"}
    /\ HasSubscriptions
    /\ tasks[id].cyc < MaxCycles
    /\ tasks' = [tasks EXCEPT ![id] = RaisedTurn(tasks[id])]
    /\ UNCHANGED <<conn, pollIntervalMs, subQuotes, subTrades, subBars,
                   pollTask, nextTask, cache, lastTickTimes, emitted>>
    /\ UNCHANGED notPoll

\* The loop stops at the first symbol whose fetch or conversion failed.
NextSymbolsUntilFailure(todo, outcome) ==
    IF outcome \in {"badtick", "exception"} THEN <<>> ELSE Tail(todo)

\* The symbols left to the `for` loop of _poll_quotes once the body has run for
\* the head of todo: the body's try/except keeps every outcome inside the
\* iteration, so the loop goes on with the next symbol.
NextSymbols(todo, outcome) == Tail(todo)

\* The loop follows the live set: a symbol removed from it is not visited.
IteratedLive(snapshot, live) == SelectSeq(snapshot, LAMBDA s : s \in live)

\* `for symbol in list(self._subscribed_quote_ticks)`: the loop iterates over
\* the copy taken when the cycle started, whatever the live set holds by now.
Iterated(snapshot, live) == snapshot

\* The answer to symbol_info_tick for the symbol at the head of the snapshot,
\* and the rest of _poll_quotes up to the next await.
QuoteResponse(id, outcome, time_msc) ==
    /\ Runnable(id)
    /\ tasks[id].pc = "fetch"
    /\ LET t == tasks[id]
           symbol == Head(t.todo)
           fresh == /\ outcome \in {"tick", "badtick"}
                    /\ symbol \in cache
                    /\ ~AlreadyProcessed(time_msc, lastTickTimes[symbol])
           emits == fresh /\ outcome = "tick"
           got == t.received \/ emits
           rest == Iterated(NextSymbols(t.todo, outcome), subQuotes)
       IN  /\ lastTickTimes' = IF fresh
                               THEN [lastTickTimes EXCEPT ![symbol] = time_msc]
                               ELSE lastTickTimes
           /\ emitted' = IF emits
                         THEN [emitted EXCEPT ![symbol] = Append(@, time_msc)]
                         ELSE emitted
           /\ tasks' = [tasks EXCEPT ![id] =
                          IF rest # <<>>
                          THEN [t EXCEPT !.todo = rest, !.received = got]
                          ELSE EndCycle(t, t.interval, got)]
    /\ UNCHANGED <<conn, pollIntervalMs, subQuotes, subTrades, subBars,
                   pollTask, nextTask, cache>>
    /\ UNCHANGED notPoll

\* The CancelledError reaches a cancelled task at its suspension point (or
\* before its first step): the loop breaks and the task ends. The ended task
\* keeps the suspension point it was cancelled at.
TaskCancelled(id) ==
    /\ Alive(id)
    /\ tasks[id].cancel
    /\ tasks' = [tasks EXCEPT ![id] = [DoneTask EXCEPT !.pc = tasks[id].pc]]
    /\ UNCHANGED <<conn, pollIntervalMs, subQuotes, subTrades, subBars,
                   pollTask, nextTask, cache, lastTickTimes, emitted>>
    /\ UNCHANGED notPoll

\* Mt5DataClient.__init__: empty subscription sets, no polling task.
PollLocals ==
    /\ conn = "disconnected"
    /\ subQuotes = {}
    /\ subTrades = {}
    /\ subBars = {}
    /\ pollTask = 0
    /\ tasks = [id \in TaskIds |-> NoTask]
    /\ nextTask = 1
    /\ lastTickTimes = [s \in Symbols |-> 0]
    /\ emitted = [s \in Symbols |-> <<>>]

\* A constructed client with the default poll interval; any instruments cached.
PollInit ==
    /\ PollLocals
    /\ pollIntervalMs = DefaultPollIntervalMs
    /\ cache \in {Symbols, {"EURUSD"}}

\* The values poll_interval_ms is configured with in the runs that vary it.
PollIntervals == {0, 50, 120, 1000, 4500, 10000}

\* A constructed client with any of the poll intervals; every instrument cached.
IntervalInit ==
    /\ PollLocals
    /\ pollIntervalMs \in PollIntervals
    /\ cache = Symbols

\* The poller side of a run that never subscribes.
PollQuiet ==
    /\ PollLocals
    /\ pollIntervalMs = DefaultPollIntervalMs
    /\ cache = {}

\* ======================================================== order submission
\* ------------------------------------------------------- program constants
\* Mt5TradeAction.DEAL
TradeActionDeal == 1
\* Mt5TradeAction.PENDING
TradeActionPending == 5
\* Mt5OrderType.BUY
OrderTypeBuy == 0
\* Mt5OrderType.SELL
OrderTypeSell == 1
\* Mt5OrderType.BUY_LIMIT
OrderTypeBuyLimit == 2
\* Mt5OrderType.SELL_LIMIT
OrderTypeSellLimit == 3
\* Mt5OrderType.BUY_STOP
OrderTypeBuyStop == 4
\* Mt5OrderType.SELL_STOP
OrderTypeSellStop == 5
\* Mt5RetCode.DONE
RetCodeDone == 10009
\* Mt5RetCode.PLACED
RetCodePlaced == 10008
\* Mt5RetCode.REJECT
RetCodeReject == 10006
\* Mt5RetCode.NO_MONEY
RetCodeNoMoney == 10019

\* OrderSide and OrderType of the host framework, the members an order of a
\* strategy carries.
OrderSides == {"BUY", "SELL"}
OrderKinds == {"MARKET", "LIMIT", "STOP_MARKET", "STOP_LIMIT",
               "MARKET_IF_TOUCHED", "TRAILING_STOP_MARKET"}

\* The return codes the broker answers with in the runs.
RetCodes == {RetCodeDone, RetCodePlaced, RetCodeReject, RetCodeNoMoney}

\* What order_send can come back with: "transport" (the call raises),
\* "emptytext" (an empty body), "malformed" (json.loads raises), "noresult"
\* (no "result" field, or an empty one, as in {"error": ...}), or "result":
\* a result record with a retcode, with or without a comment.
NoResponse == [kind |-> "none", retcode |-> 0, comment |-> FALSE]
OrderSendResponses ==
    {[kind |-> k, retcode |-> 0, comment |-> FALSE] :
        k \in {"transport", "emptytext", "malformed", "noresult"}}
    \cup {[kind |-> "result", retcode |-> r, comment |-> c] :
            r \in RetCodes, c \in BOOLEAN}

\* _convert_order_type with the two sides of the limit entry swapped.
ConvertOrderTypeSwapped(side, order_type) ==
    IF order_type = "LIMIT"
    THEN IF side = "BUY" THEN OrderTypeSellLimit ELSE OrderTypeBuyLimit
    ELSE IF order_type = "STOP_MARKET"
    THEN IF side = "BUY" THEN OrderTypeBuyStop ELSE OrderTypeSellStop
    ELSE IF side = "BUY" THEN OrderTypeBuy ELSE OrderTypeSell

\* _convert_order_type
ConvertOrderType(side, order_type) ==
    IF order_type = "MARKET"
    THEN IF side = "BUY" THEN OrderTypeBuy ELSE OrderTypeSell
    ELSE IF order_type = "LIMIT"
    THEN IF side = "BUY" THEN OrderTypeBuyLimit ELSE OrderTypeSellLimit
    ELSE IF order_type = "STOP_MARKET"
    THEN IF side = "BUY" THEN OrderTypeBuyStop ELSE OrderTypeSellStop
    ELSE IF side = "BUY" THEN OrderTypeBuy ELSE OrderTypeSell

\* The request record _submit_order builds; price and stoplimit say whether
\* the field is put in (the order carries the price its type has).
NoRequest == [action |-> -1, type |-> -1, price |-> FALSE, stoplimit |-> FALSE]
BuildRequest(order) ==
    [action |-> TradeActionDeal,
     type |-> ConvertOrderType(order.side, order.kind),
     price |-> order.kind \in {"LIMIT", "STOP_LIMIT"},
     stoplimit |-> order.kind \in {"STOP_MARKET", "STOP_LIMIT"}]

\* The handler lets the exception of a failed call out, as _modify_order does,
\* and rejects every answer.
SubmitOutcomeReraising(resp) ==
    IF resp.kind \in {"transport", "malformed"}
    THEN [pc |-> "raised", events |-> <<>>]
    ELSE [pc |-> "returned",
          events |-> <<[event |-> "rejected", reason |-> "No response"]>>]

\* _submit_order from the answer of order_send to its return: how it ends and
\* which events it generates.
SubmitOutcome(resp) ==
    [pc |-> "returned",
     events |->
       IF resp.kind \in {"transport", "malformed"}
       THEN <<[event |-> "rejected", reason |-> "exception text"]>>
       ELSE IF resp.kind \in {"emptytext", "noresult"}
       THEN <<[event |-> "rejected", reason |-> "No response"]>>
       ELSE IF resp.retcode = RetCodeDone
       THEN <<[event |-> "accepted", reason |-> ""]>>
       ELSE <<[event |-> "rejected",
               reason |-> IF resp.comment THEN "comment" ELSE "Unknown error"]>>]

\* _submit_order up to `await self._client.order_send(...)`.
SubmitOrder(side, order_type) ==
    /\ xPc \in {"idle", "returned", "raised"}
    /\ xOrder' = [side |-> side, kind |-> order_type]
    /\ xRequest' = BuildRequest(xOrder')
    /\ xResponse' = NoResponse
    /\ xEvents' = <<>>
    /\ xPc' = "await"
    /\ UNCHANGED notExec

\* _submit_order from the answer of order_send to its return.
OrderSendReturns(resp) ==
    /\ xPc = "await"
    /\ xResponse' = resp
    /\ xEvents' = SubmitOutcome(resp).events
    /\ xPc' = SubmitOutcome(resp).pc
    /\ UNCHANGED <<xOrder, xRequest>>
    /\ UNCHANGED notExec

\* Mt5ExecutionClient.__init__: no order submitted yet.
ExecInit ==
    /\ xPc = "idle"
    /\ xOrder = [side |-> "BUY", kind |-> "MARKET"]
    /\ xRequest = NoRequest
    /\ xResponse = NoResponse
    /\ xEvents = <<>>

ExecNext ==
    \/ \E side \in OrderSides, k \in OrderKinds : SubmitOrder(side, k)
    \/ \E resp \in OrderSendResponses : OrderSendReturns(resp)

\* ======================================================= broker reports
\* ---------------------------------------------------------------- bounds
\* Broker records one generate_*_reports call fetches.
MaxRecords == 2

\* A field the broker record does not carry: dict.get yields None.
Absent == -1

\* Mt5OrderState: the codes 0 (STARTED) to 9 (REQUEST_CANCEL).
OrderStates == 0..9

\* The status codes of the order records in the runs: none, PLACED, EXPIRED,
\* and a code outside the enumeration.
StatusCodes == {Absent, 1, 6, 12}

\* The type codes of the records in the runs, for each kind of record:
\* none, BUY, SELL, and CLOSE_BY for an order or BALANCE for a deal.
TypeCodes(kind) ==
    CASE kind = "order" -> {Absent, 0, 1, 8}
      [] kind = "deal" -> {Absent, 0, 1, 2}
      [] kind = "position" -> {Absent, 0, 1}

ReportKinds == {"order", "deal", "position"}

\* The broker records of each kind: symbol "" stands for a missing or empty
\* symbol; a field its parser never reads is left out (Absent).
BrokerRecords(kind) ==
    [status : IF kind = "order" THEN StatusCodes ELSE {Absent},
     type : TypeCodes(kind),
     symbol : {"", "EURUSD"},
     ticket : {Absent, 7},
     order : IF kind = "deal" THEN {Absent, 3} ELSE {Absent}]

\* status_map of _parse_order_status_report.
StatusMap ==
    (0 :> "SUBMITTED") @@ (1 :> "ACCEPTED") @@ (2 :> "CANCELED") @@
    (3 :> "PARTIALLY_FILLED") @@ (4 :> "FILLED") @@ (5 :> "REJECTED")

\* mt5_record.get("type", 0)
TypeOrZero(record) == IF record.type = Absent THEN 0 ELSE record.type

Failure(message) == [ok |-> FALSE, error |-> message, status |-> "", side |-> ""]
Report(status, side) == [ok |-> TRUE, error |-> "", status |-> status, side |-> side]

\* _parse_order_status_report
ParseOrderStatusReport(mt5_order) ==
    IF mt5_order.status = Absent THEN Failure("missing status")
    ELSE IF mt5_order.status \notin DOMAIN StatusMap THEN Failure("unknown status")
    ELSE IF mt5_order.symbol = "" THEN Failure("missing symbol")
    ELSE IF mt5_order.ticket = Absent THEN Failure("missing ticket")
    ELSE Report(StatusMap[mt5_order.status],
                IF TypeOrZero(mt5_order) % 2 = 0 THEN "BUY" ELSE "SELL")

\* _parse_fill_report
ParseFillReport(mt5_deal) ==
    IF mt5_deal.symbol = "" THEN Failure("missing symbol")
    ELSE IF mt5_deal.order = Absent THEN Failure("missing order")
    ELSE IF mt5_deal.ticket = Absent THEN Failure("missing ticket")
    ELSE Report("", IF TypeOrZero(mt5_deal) = 0 THEN "BUY" ELSE "SELL")

\* _parse_position_status_report
ParsePositionStatusReport(mt5_position) ==
    IF mt5_position.symbol = "" THEN Failure("missing symbol")
    ELSE Report("", IF TypeOrZero(mt5_position) = 0 THEN "LONG" ELSE "SHORT")

ParseReport(kind, record) ==
    CASE kind = "order" -> ParseOrderStatusReport(record)
      [] kind = "deal" -> ParseFillReport(record)
      [] kind = "position" -> ParsePositionStatusReport(record)

\* The sequences over S of length at most n.
SeqUpTo(S, n) == UNION {[1..k -> S] : k \in 0..n}

ParseAll(kind, records) == [i \in 1..Len(records) |-> ParseReport(kind, records[i])]

\* generate_order_status_reports / generate_fill_reports /
\* generate_position_status_reports up to the first await.
GenerateReports(kind, history) ==
    /\ rPc \in {"idle", "returned", "raised"}
    /\ history => kind = "order"
    /\ rKind' = kind
    /\ rHistory' = history
    /\ rFetched' = <<>>
    /\ rReports' = <<>>
    /\ rPc' = "await"
    /\ UNCHANGED notReports

\* A fetch is in flight: orders_get, history_deals_get or positions_get
\* ("await"), or history_orders_get ("awaitHistory").
ReportsAwaiting == rPc \in {"await", "awaitHistory"}

\* The fetch raised (transport, json.loads): logged and re-raised.
ReportsFetchRaises ==
    /\ ReportsAwaiting
    /\ rPc' = "raised"
    /\ rReports' = <<>>
    /\ UNCHANGED <<rKind, rHistory, rFetched>>
    /\ UNCHANGED notReports

\* The fetch answered with records: each is parsed and appended; the first
\* parser error is logged and re-raised, and nothing is returned. After
\* orders_get, generate_order_status_reports goes on to the history when it
\* was asked for (not open_only, start and end given).
ReportsFetched(records) ==
    /\ ReportsAwaiting
    /\ \A i \in 1..Len(records) : records[i] \in BrokerRecords(rKind)
    /\ Len(rFetched) + Len(records) <= MaxRecords
    /\ rFetched' = rFetched \o records
    /\ LET parsed == ParseAll(rKind, records)
       IN  IF \E i \in 1..Len(parsed) : ~parsed[i].ok
           THEN /\ rPc' = "raised"
                /\ rReports' = <<>>
           ELSE /\ rReports' = rReports \o parsed
                /\ rPc' = IF rPc = "await" /\ rHistory
                          THEN "awaitHistory" ELSE "returned"
    /\ UNCHANGED <<rKind, rHistory>>
    /\ UNCHANGED notReports

\* What a fetch can answer with: up to MaxRecords records of one kind.
RecordLists == UNION {SeqUpTo(BrokerRecords(kind), MaxRecords) : kind \in ReportKinds}

\* Mt5ExecutionClient.__init__: no report requested yet.
ReportsInit ==
    /\ rPc = "idle"
    /\ rKind = "order"
    /\ rHistory = FALSE
    /\ rFetched = <<>>
    /\ rReports = <<>>

ReportsNext ==
    \/ \E kind \in ReportKinds, history \in BOOLEAN : GenerateReports(kind, history)
    \/ ReportsFetchRaises
    \/ \E records \in RecordLists : ReportsFetched(records)

\* ===================================================== response parsing
\* ---------------------------------------------------------------- bounds
\* Distinct values a field of a response object takes in the runs.
MaxValue == 2

\* The two client modules with the same _parse_response.
ClientModules == {"python/nautilus_mt5", "nautilus_mt5"}

\* The value of a field of a response object, Absent for a missing key.
FieldValues == {Absent} \cup (1..MaxValue)

\* The response texts: None, the empty string, text json.loads rejects, the
\* JSON texts null and [...], and JSON objects with or without the keys
\* "error", "result" and another key.
NotAnObject(form) == [form |-> form, error |-> Absent, result |-> Absent, other |-> Absent]

ResponseTexts ==
    {NotAnObject(form) : form \in {"none", "empty", "malformed", "null", "array"}}
        \cup [form : {"object"}, error : FieldValues, result : FieldValues,
              other : FieldValues]

Parsed(kind, value, message) == [kind |-> kind, value |-> value, message |-> message]

NotParsed == Parsed("", Absent, Absent)

\* _parse_response: kind "none" for None, "result" for the value of the
\* "result" key, "raise ..." for the exception that leaves the function.
\* JSONDecodeError is caught and None returned; on the JSON text null the
\* test `"error" in resp` raises TypeError, on an array resp.get raises
\* AttributeError, and neither is caught.
ParseResponse(text) ==
    IF text.form \in {"none", "empty"} THEN Parsed("none", Absent, Absent)
    ELSE IF text.form = "malformed" THEN Parsed("none", Absent, Absent)
    ELSE IF text.form = "null" THEN Parsed("raise TypeError", Absent, Absent)
    ELSE IF text.form = "array" THEN Parsed("raise AttributeError", Absent, Absent)
    ELSE IF text.error # Absent THEN Parsed("raise RuntimeError", Absent, text.error)
    ELSE IF text.result = Absent THEN Parsed("none", Absent, Absent)
    ELSE Parsed("result", text.result, Absent)

\* The bridge call of a client returned its text.
ResponseReceived(client, text) ==
    /\ jPc \in {"idle", "parsed"}
    /\ jPc' = "received"
    /\ jClient' = client
    /\ jResponse' = text
    /\ jParsed' = NotParsed
    /\ UNCHANGED notParse

\* The client parses the text it received.
ResponseParsed ==
    /\ jPc = "received"
    /\ jPc' = "parsed"
    /\ jParsed' = ParseResponse(jResponse)
    /\ UNCHANGED <<jClient, jResponse>>
    /\ UNCHANGED notParse

ParseInit ==
    /\ jPc = "idle"
    /\ jClient = "nautilus_mt5"
    /\ jResponse = NotAnObject("none")
    /\ jParsed = NotParsed

ParseNext ==
    \/ \E client \in ClientModules, text \in ResponseTexts : ResponseReceived(client, text)
    \/ ResponseParsed

\* ==================================================== instrument provider
\* ---------------------------------------------------------------- bounds
\* Largest number of decimal places of a volume_step in the runs.
MaxStepExp == 5
\* Largest reading of the provider's clock.
MaxClock == 1

\* Symbol names as sequences of characters, <<>> for a missing name.
NameEURUSD == <<"E", "U", "R", "U", "S", "D">>
SymbolNames == {<<>>, NameEURUSD}

\* A volume_step as the JSON number coeff * 10^-exp, read by json.loads as a
\* float or (a whole number without fraction) as an int; NoStep for a
\* missing volume_step.
NoStep == [coeff |-> 0, exp |-> 0, float |-> FALSE]

VolumeSteps ==
    {NoStep} \cup
    {st \in [coeff : {1}, exp : {0, 2, MaxStepExp}, float : BOOLEAN] :
        st.float \/ st.exp = 0}

\* The symbol data of the runs. The currency fields are both given or both
\* missing ("" for a missing string); volume_high, path and category are
\* missing throughout.
SymbolData ==
    {d \in [name : SymbolNames,
            currency_base : {"", "GBP"},
            currency_profit : {"", "JPY"},
            digits : {Absent, 5},
            point : {Absent, 1},
            volume_low : {Absent, 1},
            volume_min : {Absent, 1},
            volume_high : {Absent},
            volume_max : {Absent, 100},
            volume_step : VolumeSteps] :
        (d.currency_base = "") = (d.currency_profit = "")}

\* A missing lookup is replaced by 1.
FirstTruthyOrOne(a, b) == IF a # Absent THEN a ELSE IF b # Absent THEN b ELSE 1

\* Python's `a or b` on two dictionary lookups.
FirstTruthy(a, b) == IF a # Absent /\ a # 0 THEN a ELSE b

\* symbol_name[lo:hi] of Python, for 0 <= lo <= hi.
Slice(name, lo, hi) ==
    LET last == IF hi < Len(name) THEN hi ELSE Len(name)
    IN  IF lo >= last THEN <<>> ELSE SubSeq(name, lo + 1, last)

CodeOf(currency) == IF currency = "GBP" THEN <<"G", "B", "P">> ELSE <<"J", "P", "Y">>

PreciousMetals == {<<"X", "A", "U">>, <<"X", "A", "G">>, <<"X", "P", "T">>, <<"X", "P", "D">>}

RECURSIVE CountDigits(_)
CountDigits(n) == IF n < 10 THEN 1 ELSE 1 + CountDigits(n \div 10)

\* len(str(volume_step).split(".")[-1]) if "." in str(volume_step) else 0.
\* str of an int has no point; str of a float below 1e-4 is in exponent
\* notation ("1e-05", "2.5e-05"), else positional with at least one
\* fractional digit ("1.0", "0.01").
SizePrecision(st) ==
    LET digits == CountDigits(st.coeff)
        exponent == st.exp - (digits - 1)
    IN  IF ~st.float THEN 0
        ELSE IF exponent > 4
             THEN (IF digits > 1 THEN (digits - 1) + 2 + CountDigits(exponent) + (IF exponent < 10 THEN 1 ELSE 0)
                   ELSE 0)
        ELSE IF st.exp = 0 THEN 1
        ELSE st.exp

NoInstrument ==
    [ok |-> FALSE, error |-> "", base |-> <<>>, quote |-> <<>>,
     price_precision |-> Absent, size_precision |-> Absent, ts_event |-> Absent]

MissingField(field) == [NoInstrument EXCEPT !.error = field]

\* _parse_instrument at clock reading `now`.
ParseInstrument(d, now) ==
    LET base == IF d.currency_base # "" THEN CodeOf(d.currency_base)
                ELSE Slice(d.name, 0, 3)
        quote0 == IF d.currency_profit # "" THEN CodeOf(d.currency_profit)
                  ELSE Slice(d.name, 3, 6)
        quote == IF base \in PreciousMetals /\ Len(quote0) < 3
                 THEN <<"U", "S", "D">> ELSE quote0
        volume_min == FirstTruthy(d.volume_low, d.volume_min)
        volume_max == FirstTruthy(d.volume_high, d.volume_max)
    IN  IF d.name = <<>> THEN MissingField("name")
        ELSE IF d.digits = Absent THEN MissingField("digits")
        ELSE IF d.point = Absent THEN MissingField("point")
        ELSE IF volume_min = Absent THEN MissingField("volume_min")
        ELSE IF volume_max = Absent THEN MissingField("volume_max")
        ELSE IF d.volume_step = NoStep THEN MissingField("volume_step")
        ELSE [ok |-> TRUE, error |-> "", base |-> base, quote |-> quote,
              price_precision |-> d.digits,
              size_precision |-> SizePrecision(d.volume_step),
              ts_event |-> now]

\* The dictionary is empty: `not symbol_data`.
EmptyData(d) ==
    /\ d.name = <<>>
    /\ d.currency_base = ""
    /\ \A f \in {"digits", "point", "volume_low", "volume_min", "volume_high",
                 "volume_max"} : d[f] = Absent
    /\ d.volume_step = NoStep

\* load_async from the answer of symbol_info on: the symbol data are parsed
\* and the instrument is added, or the error leaves the handler.
LoadAsync(d) ==
    LET result == IF EmptyData(d) THEN MissingField("symbol not found")
                  ELSE ParseInstrument(d, iClock)
    IN  /\ iData' = d
        /\ iResult' = result
        /\ iPrev' = IF d = iData THEN iResult ELSE NoInstrument
        /\ iInstruments' = IF result.ok THEN iInstruments \cup {d.name}
                           ELSE iInstruments
        /\ UNCHANGED iClock
        /\ UNCHANGED notProvider

\* Time passes.
ClockAdvances ==
    /\ iClock < MaxClock
    /\ iClock' = iClock + 1
    /\ UNCHANGED <<iData, iResult, iPrev, iInstruments>>
    /\ UNCHANGED notProvider

NoData ==
    [name |-> <<>>, currency_base |-> "", currency_profit |-> "", digits |-> Absent,
     point |-> Absent, volume_low |-> Absent, volume_min |-> Absent,
     volume_high |-> Absent, volume_max |-> Absent, volume_step |-> NoStep]

ProviderInit ==
    /\ iData = NoData
    /\ iResult = NoInstrument
    /\ iPrev = NoInstrument
    /\ iClock = 0
    /\ iInstruments = {}

ProviderNext ==
    \/ \E d \in SymbolData : LoadAsync(d)
    \/ ClockAdvances

\* ======================================================= connect sequence
\* ---------------------------------------------------------------- bounds
\* Connect attempts in one run.
MaxAttempts == 5

DataClients == {"skeleton", "adapter"}

\* The awaited steps of connect(), in order: the skeleton client logs in over
\* HTTP, connects the websocket and authenticates on it; the adapter client
\* initialises the bridge client and the instrument provider.
ConnectSteps(client) ==
    IF client = "skeleton" THEN <<"login", "ws_connect", "ws_authenticate">>
    ELSE <<"initialize", "load_instruments">>

\* The steps after the k-th.
StepsAfter(client, k) ==
    SubSeq(ConnectSteps(client), k + 1, Len(ConnectSteps(client)))

ConnectIdle == nPc \in {"idle", "returned", "raised"}

\* connect() / _connect() up to its first await.
ConnectBegins(client) ==
    /\ ConnectIdle
    /\ nAttempts < MaxAttempts
    /\ nAttempts' = nAttempts + 1
    /\ nClient' = client
    /\ nPc' = Head(ConnectSteps(client))
    /\ nExecuted' = <<Head(ConnectSteps(client))>>
    /\ nFailed' = ""
    /\ nDisconnect' = ""
    /\ UNCHANGED nConnected
    /\ UNCHANGED notConnect

\* The awaited step returned. Mt5Client.initialize() returns False when the
\* terminal could not be initialised; _connect does not look at the value.
\* After the last step the skeleton client sets self._connected = True.
StepReturns(value) ==
    LET rest == StepsAfter(nClient, Len(nExecuted))
    IN  /\ ~ConnectIdle
        /\ value = FALSE => nPc = "initialize"
        /\ nFailed' = IF value THEN nFailed ELSE nPc
        /\ IF rest = <<>>
           THEN /\ nPc' = "returned"
                /\ nConnected' = IF nClient = "skeleton" THEN TRUE ELSE nConnected
                /\ UNCHANGED nExecuted
           ELSE /\ nPc' = Head(rest)
                /\ nExecuted' = Append(nExecuted, Head(rest))
                /\ UNCHANGED nConnected
        /\ UNCHANGED <<nClient, nAttempts, nDisconnect>>
        /\ UNCHANGED notConnect

\* The awaited step raised: the error is logged and re-raised.
StepRaises ==
    /\ ~ConnectIdle
    /\ nPc' = "raised"
    /\ nFailed' = nPc
    /\ UNCHANGED <<nClient, nExecuted, nConnected, nAttempts, nDisconnect>>
    /\ UNCHANGED notConnect

\* disconnect() of the skeleton client: when marked connected the websocket
\* disconnect is requested once and the mark cleared, but an error of the
\* disconnect is logged and the mark stays; when not marked connected
\* nothing is called.
SkeletonDisconnect(closed) ==
    /\ ConnectIdle
    /\ nClient = "skeleton"
    /\ IF nConnected
       THEN /\ nConnected' = ~closed
            /\ nDisconnect' = IF closed THEN "closed" ELSE "failed"
       ELSE /\ closed
            /\ nConnected' = FALSE
            /\ nDisconnect' = "nothing"
    /\ UNCHANGED <<nClient, nPc, nExecuted, nFailed, nAttempts>>
    /\ UNCHANGED notConnect

ConnectInit ==
    /\ nClient = "skeleton"
    /\ nPc = "idle"
    /\ nExecuted = <<>>
    /\ nFailed = ""
    /\ nConnected = FALSE
    /\ nAttempts = 0
    /\ nDisconnect = ""

ConnectNext ==
    \/ \E client \in DataClients : ConnectBegins(client)
    \/ \E value \in BOOLEAN : StepReturns(value)
    \/ StepRaises
    \/ \E closed \in BOOLEAN : SkeletonDisconnect(closed)

\* ==================================== skeleton data client subscriptions
\* ---------------------------------------------------------------- bounds
\* Websocket calls in one run.
MaxCalls == 3

\* str(instrument_id) of the instruments subscribed.
StreamSymbols == {"EURUSD.MT5"}
StreamKinds == {"quote", "trade", "bars"}

\* The websocket call of a subscribe handler: _subscribe_trade_ticks calls
\* subscribe_trades, _subscribe_quote_ticks and _subscribe_bars both call
\* subscribe_quotes.
SubscribeCall(kind, symbol) ==
    [op |-> IF kind = "trade" THEN "subscribe_trades" ELSE "subscribe_quotes",
     arg |-> symbol]

\* The websocket call of an unsubscribe handler: _unsubscribe_trade_ticks
\* passes "trade:<symbol>", _unsubscribe_quote_ticks and _unsubscribe_bars
\* both pass "quote:<symbol>".
UnsubscribeCall(kind, symbol) ==
    [op |-> "unsubscribe",
     arg |-> (IF kind = "trade" THEN "trade:" ELSE "quote:") \o symbol]

\* A subscribe or unsubscribe handler of the skeleton data client. Connected,
\* it awaits its websocket call, and an error of the call is logged and
\* re-raised; not connected, it logs a warning and returns.
StreamHandler(call, held, returns) ==
    /\ ConnectIdle
    /\ nClient = "skeleton"
    /\ IF nConnected
       THEN /\ Len(wSent) < MaxCalls
            /\ wSent' = Append(wSent, call)
            /\ wHeld' = IF returns THEN held ELSE wHeld
       ELSE /\ returns
            /\ wSent' = wSent
            /\ wHeld' = held
    /\ UNCHANGED nvars
    /\ UNCHANGED notStreams

\* _subscribe_quote_ticks, _subscribe_trade_ticks, _subscribe_bars
StreamSubscribe(kind, symbol, returns) ==
    /\ kind \in StreamKinds
    /\ StreamHandler(SubscribeCall(kind, symbol),
                     wHeld \cup {<<kind, symbol>>}, returns)

\* _unsubscribe_quote_ticks, _unsubscribe_trade_ticks, _unsubscribe_bars
StreamUnsubscribe(kind, symbol, returns) ==
    /\ <<kind, symbol>> \in wHeld
    /\ StreamHandler(UnsubscribeCall(kind, symbol),
                     wHeld \ {<<kind, symbol>>}, returns)

StreamsInit ==
    /\ wHeld = {}
    /\ wSent = <<>>

\* The skeleton data client connects, disconnects, subscribes, unsubscribes.
StreamsNext ==
    \/ ConnectBegins("skeleton")
    \/ StepReturns(TRUE)
    \/ StepRaises
    \/ \E closed \in BOOLEAN : SkeletonDisconnect(closed)
    \/ \E k \in StreamKinds, s \in StreamSymbols, r \in BOOLEAN :
         StreamSubscribe(k, s, r)
    \/ \E k \in StreamKinds, s \in StreamSymbols, r \in BOOLEAN :
         StreamUnsubscribe(k, s, r)

\* ============================================ skeleton execution client
\* ---------------------------------------------------------------- bounds
\* connect() calls in one run.
MaxConnects == 3

\* The commands handed to _submit_order: client_order_id Absent for none,
\* limit_price FALSE for none.
SubmitCommands ==
    [symbol : {"EURUSD", "XAUUSD"},
     order_type : {"MARKET", "LIMIT", "STOP_MARKET"},
     limit_price : BOOLEAN,
     client_order_id : {Absent, 1, 2}]

NoCommand ==
    [symbol |-> "", order_type |-> "", limit_price |-> FALSE, client_order_id |-> Absent]

\* connect() logs two lines and leaves self._connected as it is.
ConnectLeaves(connected) == connected

\* connect() of the skeleton execution client.
SkeletonConnect ==
    /\ kConnects < MaxConnects
    /\ kConnects' = kConnects + 1
    /\ kConnected' = ConnectLeaves(kConnected)
    /\ UNCHANGED <<kPc, kCommand, kAfterConnect, kForwarded, kReport>>
    /\ UNCHANGED notSkeleton

\* _submit_order of the skeleton execution client: not connected, it raises
\* RuntimeError; else the order goes to the HTTP client once and a status
\* report follows. Every exception gives a rejection report and is re-raised.
SkeletonSubmitOrder(command, accepted) ==
    /\ kCommand' = command
    /\ kAfterConnect' = (kConnects > 0)
    /\ IF ~kConnected
       THEN /\ kPc' = "raised"
            /\ kForwarded' = 0
            /\ kReport' = "rejection"
       ELSE /\ kForwarded' = 1
            /\ kPc' = IF accepted THEN "returned" ELSE "raised"
            /\ kReport' = IF accepted THEN "status" ELSE "rejection"
    /\ UNCHANGED <<kConnected, kConnects>>
    /\ UNCHANGED notSkeleton

SkeletonInit ==
    /\ kConnected = FALSE
    /\ kConnects = 0
    /\ kPc = "idle"
    /\ kCommand = NoCommand
    /\ kAfterConnect = FALSE
    /\ kForwarded = 0
    /\ kReport = ""

SkeletonNext ==
    \/ SkeletonConnect
    \/ \E command \in SubmitCommands, accepted \in BOOLEAN :
          SkeletonSubmitOrder(command, accepted)

\* ===================================================== cancel and modify
\* ---------------------------------------------------------------- bounds
\* Cancel commands in one batch, and open orders one orders_get returns.
MaxBatch == 2

\* ------------------------------------------------------- program constants
\* Mt5TradeAction.MODIFY
TradeActionModify == 3
\* Mt5TradeAction.REMOVE
TradeActionRemove == 8

ExecClients == {"adapter", "skeleton"}

\* The venue order ids a command carries in the runs; Absent: it has none.
VenueOrderIds == {Absent} \cup {10 + k : k \in 1..MaxBatch}

\* The open orders of the broker in the runs.
OpenOrders == [symbol : {"EURUSD", "XAUUSD"}, ticket : {20 + k : k \in 1..MaxBatch}]

\* self._connected of the skeleton client: False from __init__, assigned
\* nowhere else in the class.
SkeletonConnected == FALSE

\* The command is sent whatever its order id is.
CommandAcceptedAlways(client, id) == TRUE

\* The command can be turned into a request: the adapter client reads
\* int(command.venue_order_id.value), the skeleton client checks the
\* connection and then the order id.
CommandAccepted(client, id) ==
    IF client = "skeleton" THEN SkeletonConnected /\ id # Absent
    ELSE id # Absent

\* The request of one cancel or modify.
OrderRequest(op, id) ==
    [action |-> IF op = "modify" THEN TradeActionModify ELSE TradeActionRemove,
     order |-> id]

\* Every open order is cancelled, whatever its symbol.
MatchingTicketsAll(orders, symbol) == [i \in 1..Len(orders) |-> orders[i].ticket]

\* The tickets _cancel_all_orders cancels: every order when the command names
\* no instrument, else the orders of its symbol, in the order fetched.
RECURSIVE MatchingTickets(_, _)
MatchingTickets(orders, symbol) ==
    IF orders = <<>> THEN <<>>
    ELSE (IF symbol # "" /\ Head(orders).symbol # symbol
          THEN <<>> ELSE <<Head(orders).ticket>>)
         \o MatchingTickets(Tail(orders), symbol)

\* The handler takes up the next order id: the command raises, or its request
\* goes out; with none left the handler returns.
SendNext(op, client, ids, sent) ==
    IF ids = <<>>
    THEN /\ cPc' = "returned"
         /\ cTodo' = <<>>
         /\ cSent' = sent
         /\ cError' = "none"
    ELSE IF op # "cancel_all" /\ ~CommandAccepted(client, Head(ids))
    THEN /\ cPc' = "raised"
         /\ cTodo' = <<>>
         /\ cSent' = sent
         /\ cError' = "command"
    ELSE /\ cPc' = "await"
         /\ cTodo' = Tail(ids)
         /\ cSent' = Append(sent, OrderRequest(op, Head(ids)))
         /\ cError' = "none"

CancelIdle == cPc \in {"idle", "returned", "raised"}

\* _cancel_order / _modify_order up to the await of the request.
CancelOrModify(op, client, id) ==
    /\ CancelIdle
    /\ op \in {"cancel", "modify"}
    /\ cOp' = op
    /\ cClient' = client
    /\ cCmds' = <<id>>
    /\ cSymbol' = ""
    /\ cOrders' = <<>>
    /\ SendNext(op, client, <<id>>, <<>>)
    /\ UNCHANGED notCancel

\* _batch_cancel_orders: _cancel_order for each command, in order.
BatchCancelOrders(ids) ==
    /\ CancelIdle
    /\ cOp' = "batch"
    /\ cClient' = "adapter"
    /\ cCmds' = ids
    /\ cSymbol' = ""
    /\ cOrders' = <<>>
    /\ SendNext("batch", "adapter", ids, <<>>)
    /\ UNCHANGED notCancel

\* _cancel_all_orders up to `await self._client.orders_get()`.
CancelAllOrders(symbol) ==
    /\ CancelIdle
    /\ cOp' = "cancel_all"
    /\ cClient' = "adapter"
    /\ cCmds' = <<>>
    /\ cSymbol' = symbol
    /\ cOrders' = <<>>
    /\ cTodo' = <<>>
    /\ cSent' = <<>>
    /\ cError' = "none"
    /\ cPc' = "awaitOrders"
    /\ UNCHANGED notCancel

\* orders_get answered: the matching orders are cancelled one by one.
OpenOrdersFetched(orders) ==
    /\ cPc = "awaitOrders"
    /\ cOrders' = orders
    /\ SendNext("cancel_all", "adapter", MatchingTickets(orders, cSymbol), <<>>)
    /\ UNCHANGED <<cOp, cClient, cCmds, cSymbol>>
    /\ UNCHANGED notCancel

\* The broker answered the request in flight, with success or with a failure
\* code (which is logged): the handler goes on.
RequestAnswered ==
    /\ cPc = "await"
    /\ SendNext(cOp, cClient, cTodo, cSent)
    /\ UNCHANGED <<cOp, cClient, cCmds, cSymbol, cOrders>>
    /\ UNCHANGED notCancel

\* orders_get or the request in flight raised: logged and re-raised.
RequestRaises ==
    /\ cPc \in {"await", "awaitOrders"}
    /\ cPc' = "raised"
    /\ cError' = "request"
    /\ cTodo' = <<>>
    /\ UNCHANGED <<cOp, cClient, cCmds, cSymbol, cOrders, cSent>>
    /\ UNCHANGED notCancel

\* No cancel or modify command handled yet.
CancelInit ==
    /\ cPc = "idle"
    /\ cOp = "cancel"
    /\ cClient = "adapter"
    /\ cCmds = <<>>
    /\ cSymbol = ""
    /\ cOrders = <<>>
    /\ cTodo = <<>>
    /\ cSent = <<>>
    /\ cError = "none"

CancelModifyNext ==
    \/ \E op \in {"cancel", "modify"}, client \in ExecClients, id \in VenueOrderIds :
          CancelOrModify(op, client, id)
    \/ \E ids \in SeqUpTo(VenueOrderIds, MaxBatch) : BatchCancelOrders(ids)
    \/ \E symbol \in {"", "EURUSD"} : CancelAllOrders(symbol)
    \/ \E orders \in SeqUpTo(OpenOrders, MaxBatch) : OpenOrdersFetched(orders)
    \/ RequestAnswered
    \/ RequestRaises

\* connect / disconnect of the host framework, and the end of a cancelled task.
ConnectionNext ==
    \/ ConnectBegin
    \/ ConnectOk
    \/ ConnectFail
    \/ DisconnectBegin
    \/ DisconnectEnd
    \/ \E id \in TaskIds : TaskCancelled(id)

QuoteSubscriptionNext(symbols) ==
    \/ \E s \in symbols : SubscribeQuoteTicks(s)
    \/ \E s \in symbols : UnsubscribeQuoteTicks(s)

OtherSubscriptionNext ==
    \/ \E s \in TradeSymbols : SubscribeTradeTicks(s)
    \/ \E s \in TradeSymbols : UnsubscribeTradeTicks(s)
    \/ \E b \in BarTypes : SubscribeBars(b)
    \/ \E b \in BarTypes : UnsubscribeBars(b)

\* The steps of the polling task, the remote answering with the given
\* outcomes and tick times.
PollLoopNext(outcomes, times) ==
    \/ \E id \in TaskIds : PollWake(id)
    \/ \E id \in TaskIds : PollCycleRaises(id)
    \/ \E id \in TaskIds, o \in outcomes, tm \in times : QuoteResponse(id, o, tm)

\* Every handler of the client; the remote's ticks all carry one time_msc.
PollNext ==
    \/ ConnectionNext
    \/ QuoteSubscriptionNext(Symbols)
    \/ OtherSubscriptionNext
    \/ PollLoopNext(TickOutcomes, {1000})

\* Quote subscriptions and the polling task against every remote answer.
QuotesNext ==
    \/ QuoteSubscriptionNext(Symbols)
    \/ PollLoopNext(TickOutcomes, TickTimes)

\* One quote symbol, a trade subscription, and the polling task, for every
\* configured poll interval.
IntervalNext ==
    \/ QuoteSubscriptionNext({"EURUSD"})
    \/ \E s \in TradeSymbols : SubscribeTradeTicks(s)
    \/ PollLoopNext({"tick", "empty"}, TickTimes)

\* Quote subscriptions, connect and disconnect, and the polling task against
\* a remote that answers with a tick or with nothing.
CancelNext ==
    \/ ConnectionNext
    \/ \E s \in Symbols : SubscribeQuoteTicks(s)
    \/ PollLoopNext({"tick", "empty"}, {1000})

\* ==================================================== order book deltas
\* _subscribe_order_book_deltas: a warning is logged and the handler returns
\* None; no field of the client is touched and nothing is sent.
SubscribeOrderBookDeltas(s) ==
    /\ oSymbol' = s
    /\ oSignal' = "returned"
    /\ UNCHANGED notDeltas

DeltasInit ==
    /\ oSymbol = ""
    /\ oSignal = ""

\* Quote subscriptions, the polling task, and order book delta subscriptions.
DeltasNext ==
    \/ QuoteSubscriptionNext(Symbols)
    \/ PollLoopNext({"tick", "empty"}, {1000})
    \/ \E s \in Symbols : SubscribeOrderBookDeltas(s)

\* The time_msc values of a remote whose ticks grow newer with every request.
FlowTimes == {k * 1000 : k \in 0..MaxCycles}

\* The answer of a remote that has a newer tick for EURUSD at every request
\* and answers with anything for the other symbols.
FlowingQuoteResponse(id, outcome, time_msc) ==
    /\ Runnable(id)
    /\ tasks[id].pc = "fetch"
    /\ Head(tasks[id].todo) = "EURUSD" =>
         /\ outcome = "tick"
         /\ time_msc = lastTickTimes["EURUSD"] + 1000
    /\ QuoteResponse(id, outcome, time_msc)

\* EURUSD and XAUUSD are subscribed, only XAUUSD is unsubscribed again, the
\* client is never disconnected, and the remote keeps newer ticks for EURUSD.
FlowNext ==
    \/ \E s \in Symbols : SubscribeQuoteTicks(s)
    \/ UnsubscribeQuoteTicks("XAUUSD")
    \/ \E id \in TaskIds : PollWake(id)
    \/ \E id \in TaskIds : PollCycleRaises(id)
    \/ \E id \in TaskIds, o \in TickOutcomes, tm \in FlowTimes :
         FlowingQuoteResponse(id, o, tm)

FetchNext ==
    \/ \E k \in FetchKinds : \E s, e \in Grid(k) : BeginRange(k, s, e)
    \/ \E o \in ChunkOutcomes : DataChunk(o)
    \/ \E o \in ChunkOutcomes : ClientChunk(o)
    \/ NextChunk

\* The historical range fetch alone.
FetchSpecInit == FetchInit /\ PollQuiet /\ ExecInit /\ ReportsInit /\ CancelInit /\ ParseInit /\ ProviderInit /\ ConnectInit /\ SkeletonInit /\ DeltasInit /\ StreamsInit
SpecFetch == FetchSpecInit /\ [][FetchNext]_vars

\* The range fetch when every chunk request is answered (with any outcome)
\* and every sleep of the loop returns.
FetchFairSpecInit == FetchSparseInit /\ PollQuiet /\ ExecInit /\ ReportsInit /\ CancelInit /\ ParseInit /\ ProviderInit /\ ConnectInit /\ SkeletonInit /\ DeltasInit /\ StreamsInit
SpecFetchFair ==
    /\ FetchFairSpecInit
    /\ [][FetchNext]_vars
    /\ WF_vars(\E o \in ChunkOutcomes : DataChunk(o) \/ ClientChunk(o))
    /\ WF_vars(NextChunk)

\* The subscription poller alone, with the default poll interval.
PollSpecInit == PollInit /\ FetchQuiet /\ ExecInit /\ ReportsInit /\ CancelInit /\ ParseInit /\ ProviderInit /\ ConnectInit /\ SkeletonInit /\ DeltasInit /\ StreamsInit
SpecPoll == PollSpecInit /\ [][PollNext]_vars

\* The quote poller against every remote answer.
SpecQuotes == PollSpecInit /\ [][QuotesNext]_vars

\* The adaptive interval of the polling loop for every configured interval.
IntervalSpecInit == IntervalInit /\ FetchQuiet /\ ExecInit /\ ReportsInit /\ CancelInit /\ ParseInit /\ ProviderInit /\ ConnectInit /\ SkeletonInit /\ DeltasInit /\ StreamsInit
SpecInterval == IntervalSpecInit /\ [][IntervalNext]_vars

\* The poller under a remote with ever newer ticks for EURUSD, for every
\* configured poll interval, when every sleep of the loop returns and every
\* symbol_info_tick request is answered.
SpecFlow ==
    /\ IntervalSpecInit
    /\ [][FlowNext]_vars
    /\ WF_vars(\E id \in TaskIds : PollWake(id))
    /\ WF_vars(\E id \in TaskIds, o \in TickOutcomes, tm \in FlowTimes :
                 FlowingQuoteResponse(id, o, tm))

\* The order submission of the execution client alone.
ExecSpecInit == ExecInit /\ PollQuiet /\ FetchQuiet /\ ReportsInit /\ CancelInit /\ ParseInit /\ ProviderInit /\ ConnectInit /\ SkeletonInit /\ DeltasInit /\ StreamsInit
SpecExec == ExecSpecInit /\ [][ExecNext]_vars

\* The report generators of the execution client alone.
ReportsSpecInit == ReportsInit /\ ExecInit /\ PollQuiet /\ FetchQuiet /\ CancelInit /\ ParseInit /\ ProviderInit /\ ConnectInit /\ SkeletonInit /\ DeltasInit /\ StreamsInit
SpecReports == ReportsSpecInit /\ [][ReportsNext]_vars

\* The cancel and modify handlers of the execution clients alone.
CancelModifySpecInit ==
    CancelInit /\ ParseInit /\ ReportsInit /\ ExecInit /\ PollQuiet /\ FetchQuiet
        /\ ProviderInit /\ ConnectInit /\ SkeletonInit /\ DeltasInit /\ StreamsInit
SpecCancelModify == CancelModifySpecInit /\ [][CancelModifyNext]_vars

\* _parse_response of the clients alone.
ParseSpecInit ==
    ParseInit /\ CancelInit /\ ReportsInit /\ ExecInit /\ PollQuiet /\ FetchQuiet
        /\ ProviderInit /\ ConnectInit /\ SkeletonInit /\ DeltasInit /\ StreamsInit
SpecParse == ParseSpecInit /\ [][ParseNext]_vars

\* The instrument provider alone.
ProviderSpecInit ==
    ProviderInit /\ ParseInit /\ CancelInit /\ ReportsInit /\ ExecInit /\ PollQuiet
        /\ FetchQuiet /\ ConnectInit /\ SkeletonInit /\ DeltasInit /\ StreamsInit
SpecProvider == ProviderSpecInit /\ [][ProviderNext]_vars

\* The connect sequences of the data clients alone.
ConnectSpecInit ==
    ConnectInit /\ SkeletonInit /\ DeltasInit /\ StreamsInit /\ ProviderInit /\ ParseInit /\ CancelInit /\ ReportsInit /\ ExecInit
        /\ PollQuiet /\ FetchQuiet
SpecConnect == ConnectSpecInit /\ [][ConnectNext]_vars

\* The skeleton execution client alone.
SkeletonSpecInit ==
    SkeletonInit /\ DeltasInit /\ StreamsInit /\ ConnectInit /\ ProviderInit /\ ParseInit /\ CancelInit /\ ReportsInit
        /\ ExecInit /\ PollQuiet /\ FetchQuiet
SpecSkeleton == SkeletonSpecInit /\ [][SkeletonNext]_vars

\* Order book delta subscriptions beside the quote poller.
SpecDeltas == PollSpecInit /\ [][DeltasNext]_vars

\* The subscriptions of the skeleton data client.
StreamsSpecInit ==
    StreamsInit /\ ConnectInit /\ SkeletonInit /\ DeltasInit /\ ProviderInit /\ ParseInit /\ CancelInit /\ ReportsInit
        /\ ExecInit /\ PollQuiet /\ FetchQuiet
SpecStreams == StreamsSpecInit /\ [][StreamsNext]_vars

\* The cancellation of the polling task by disconnect.
SpecCancel == PollSpecInit /\ [][CancelNext]_vars

\* ================================================================ claims
StrictlyIncreasing(q) == \A i \in 1..(Len(q) - 1) : q[i] < q[i + 1]

\* ceil(a / b) for a >= 0, b > 0
CeilDiv(a, b) == (a + b - 1) \div b

\* How often x occurs in the sequence q.
Count(q, x) == Cardinality({i \in 1..Len(q) : q[i] = x})

\* --- C1
\* C1: for every symbol, the time_msc of the quotes _poll_quotes emits are
\* strictly increasing: a tick not newer than the last one seen is not emitted.
C1_QuotesStrictlyIncreasing ==
    \A s \in Symbols : StrictlyIncreasing(emitted[s])

\* Three cycles over EURUSD have run; two of them emitted (1000, then 2000).
C1_Witness ==
    \E id \in TaskIds :
        /\ tasks[id].cyc = 3
        /\ tasks[id].pc = "sleep"
        /\ subQuotes = {"EURUSD"}
        /\ emitted["EURUSD"] = <<1000, 2000>>
        /\ emitted["XAUUSD"] = <<>>

\* --- C2
\* C2: whatever the loop sleeps for between cycles lies in
\* [min_interval, max_interval], for every configured poll_interval_ms.
\* Stated for the sleep that follows a completed cycle under a positive
\* poll_interval_ms; the sleeps of an idle turn and of a turn that raised are
\* further cases of the claim.
C2_SleepWithinBounds ==
    \A id \in TaskIds :
        (/\ Alive(id)
         /\ tasks[id].pc = "sleep"
         /\ tasks[id].turn \in {"data", "quiet"}
         /\ pollIntervalMs > 0) =>
            /\ RLeq(Rat(MinIntervalMs, 1), tasks[id].sleepMs)
            /\ RLeq(tasks[id].sleepMs, Rat(MaxIntervalMs, 1))

\* --- C3
\* A step in which task id completes a cycle (not an idle turn, not a turn
\* that raised).
CompletesCycle(id, withData) ==
    /\ tasks[id].st = "alive"
    /\ tasks'[id] # tasks[id]
    /\ tasks'[id].pc = "sleep"
    /\ tasks'[id].turn = (IF withData THEN "data" ELSE "quiet")

\* C3 as stated: current_interval strictly decreases after every cycle with a
\* new tick and strictly increases after every cycle without, unless it stays
\* at max_interval. Stated for the configured intervals inside
\* [min_interval, max_interval], where no other defect interferes.
C3_Original ==
    [][\A id \in TaskIds :
         (pollIntervalMs >= MinIntervalMs /\ pollIntervalMs <= MaxIntervalMs) =>
           /\ CompletesCycle(id, TRUE) =>
                RLt(tasks'[id].interval, tasks[id].interval)
           /\ CompletesCycle(id, FALSE) =>
                \/ RLt(tasks[id].interval, tasks'[id].interval)
                \/ /\ tasks[id].interval = Rat(MaxIntervalMs, 1)
                   /\ tasks'[id].interval = Rat(MaxIntervalMs, 1)]_vars

\* C3 amended: after a completed cycle with a new tick, current_interval
\* strictly decreases if it was above min_interval and is min_interval
\* otherwise; after a completed cycle without one, it strictly increases if it
\* was positive and below max_interval, and is max_interval if it was at or
\* above max_interval.
C3_IntervalAdapts ==
    [][\A id \in TaskIds :
         /\ CompletesCycle(id, TRUE) =>
              IF RLt(Rat(MinIntervalMs, 1), tasks[id].interval)
              THEN RLt(tasks'[id].interval, tasks[id].interval)
              ELSE tasks'[id].interval = Rat(MinIntervalMs, 1)
         /\ CompletesCycle(id, FALSE) =>
              /\ (RLt(<<0, 1>>, tasks[id].interval)
                    /\ RLt(tasks[id].interval, Rat(MaxIntervalMs, 1))) =>
                   RLt(tasks[id].interval, tasks'[id].interval)
              /\ RLeq(Rat(MaxIntervalMs, 1), tasks[id].interval) =>
                   tasks'[id].interval = Rat(MaxIntervalMs, 1)]_vars

\* A second cycle with a new tick has ended with the interval on the floor,
\* from a configured 120 ms: 120 -> 100 -> 100.
C3_Witness ==
    \E id \in TaskIds :
        /\ pollIntervalMs = 120
        /\ tasks[id].cyc = 2
        /\ tasks[id].turn = "data"
        /\ tasks[id].interval = Rat(MinIntervalMs, 1)
        /\ Len(emitted["EURUSD"]) = 2

\* --- C4
\* C4: the bars a range request of _request_bars or Mt5Client.request_bars
\* delivers are strictly increasing in open time (so none occurs twice) and
\* every open time t satisfies start <= t < end.
C4_BarsOrderedInRange ==
    (fKind \in {"DataBars", "ClientRequestBars"} /\ fPc # "idle") =>
        /\ StrictlyIncreasing(fDelivered)
        /\ \A i \in 1..Len(fDelivered) :
              fStart <= fDelivered[i] /\ fDelivered[i] < fEnd

\* --- C5
\* The i-th chunk request of a range fetch by the claim's formula.
ExpectedRequest(kind, start, end, i) ==
    <<start + (i - 1) * ChunkSize(kind),
      Min2(start + i * ChunkSize(kind), end)>>

\* C5: a range fetch of Mt5DataClient issues exactly
\* ceil((end - start) / chunk_size) requests, the i-th covering
\* start + i * chunk_size up to min(start + (i + 1) * chunk_size, end), and
\* the cursor stands at chunk_end after every answered chunk, whatever the
\* answer was.
C5_ChunkRequests ==
    (fKind \in DataKinds /\ fPc # "idle") =>
        /\ \A i \in 1..Len(fRequests) :
              fRequests[i] = ExpectedRequest(fKind, fStart, fEnd, i)
        /\ Len(fRequests) <= CeilDiv(fEnd - fStart, ChunkSize(fKind))
        /\ fPc = "done" =>
              Len(fRequests) = CeilDiv(fEnd - fStart, ChunkSize(fKind))
        /\ fPc = "sleep" =>
              /\ fCursor = fRequests[Len(fRequests)][2]
              /\ Len(fOutcomes) = Len(fRequests)

\* A range of three chunks has been fetched to the end; one chunk failed and
\* one came back empty.
C5_Witness ==
    /\ fKind \in DataKinds
    /\ fPc = "done"
    /\ Len(fRequests) = 3
    /\ fOutcomes = <<"rows", "exception", "empty">>

\* --- C6
\* What _process_bars delivers when the whole range is one chunk.
SingleChunkDelivered ==
    ProcessBars(RemoteResponse(fKind, fStart, fEnd), fStart, fEnd)

\* C6: a range fetched as two chunks delivers the same bars, each as often, as
\* the same range fetched as one chunk.
C6_ChunkingIndependent ==
    (/\ fKind = "DataBars"
     /\ fPc = "done"
     /\ fOutcomes = <<"rows", "rows">>) =>
        \A t \in Grid(fKind) :
            Count(fDelivered, t) = Count(SingleChunkDelivered, t)

\* --- C7
FailedOutcomes == {"error", "undecodable", "exception"}

\* The data the chunks that did not fail contribute, in order.
RECURSIVE HandedByChunks(_)
HandedByChunks(n) ==
    IF n = 0 THEN <<>>
    ELSE HandedByChunks(n - 1) \o
         (IF fOutcomes[n] = "rows"
          THEN LET rows == RemoteResponse(fKind, fRequests[n][1], fRequests[n][2])
               IN  IF fKind = "DataBars" THEN ProcessBars(rows, fStart, fEnd)
                   ELSE ProcessTicks(rows)
          ELSE <<>>)

\* C7: in a range fetch of Mt5DataClient a failed chunk (transport error,
\* timeout, remote error, undecodable response) is logged and contributes no
\* data; every later chunk is still requested and the data of the other
\* chunks is delivered.
C7_FailedChunkLoggedAndSkipped ==
    (fKind \in DataKinds /\ fPc = "done") =>
        /\ Len(fRequests) = CeilDiv(fEnd - fStart, ChunkSize(fKind))
        /\ fDelivered = HandedByChunks(Len(fOutcomes))
        /\ \A i \in 1..Len(fOutcomes) :
              fOutcomes[i] \in FailedOutcomes => i \in fLogged

\* --- C8
\* C8: in the range mode of Mt5Client.request_bars and fetch_bars a chunk that
\* fails or carries a remote "error" is skipped: the operation does not fail,
\* the later chunks are requested and the bars collected are returned.
C8_ClientChunkFailureSkipped ==
    fKind \in ClientKinds =>
        /\ fPc # "raised"
        /\ fPc = "done" =>
              Len(fRequests) = CeilDiv(fEnd - fStart, ChunkSize(fKind))

\* --- C9
\* C9: at most one _poll_loop task of the client is alive at any time.
C9_AtMostOnePollTask == Cardinality(AliveTasks) <= 1

\* --- C10
\* The task self._poll_task names is running.
PollingRunning ==
    pollTask # 0 /\ Alive(pollTask) /\ ~tasks[pollTask].cancel

\* C10: whenever the client is connected and a subscription set is non-empty,
\* a polling task is running.
C10_ConnectedSubscribedPolls ==
    (conn = "connected" /\ HasSubscriptions) => PollingRunning

\* --- C11
\* A step that takes the last subscription out of the three sets.
LastUnsubscribe ==
    /\ HasSubscriptions
    /\ subQuotes' = {} /\ subTrades' = {} /\ subBars' = {}

\* A step that puts the first subscription into the three sets.
FirstSubscribe ==
    /\ ~HasSubscriptions
    /\ (subQuotes' # {} \/ subTrades' # {} \/ subBars' # {})

\* C11: the first subscribe leaves a polling task started, and an unsubscribe
\* that leaves the three subscription sets empty leaves no polling task
\* running: every task still alive has been cancelled.
C11_LastUnsubscribeStopsPolling ==
    [][/\ FirstSubscribe => pollTask' # 0
       /\ LastUnsubscribe =>
            \A id \in TaskIds :
                tasks'[id].st = "alive" => tasks'[id].cancel]_vars

\* --- C12
\* The step in which _disconnect returns.
DisconnectReturns == conn = "disconnecting" /\ conn' = "disconnected"

\* C12: when _disconnect returns, the polling task it cancelled has
\* terminated: no cancelled task is still alive.
C12_DisconnectAwaitsPollTask ==
    [][DisconnectReturns =>
         \A id \in TaskIds : ~(tasks'[id].st = "alive" /\ tasks'[id].cancel)]_vars

\* --- C13
\* C13: the three subscription sets are empty at construction and empty again
\* whenever _disconnect returns.
C13_SetsClearedAtDisconnect ==
    /\ ~HasSubscriptions
    /\ [][DisconnectReturns =>
            (subQuotes' = {} /\ subTrades' = {} /\ subBars' = {})]_vars

\* --- C14
\* A step in which task id handles the answer to a symbol_info_tick request.
HandlesResponse(id) ==
    /\ Alive(id)
    /\ ~tasks[id].cancel
    /\ tasks[id].pc = "fetch"
    /\ tasks'[id] # tasks[id]

\* The task goes from the symbol it has handled to the next one of its
\* snapshot, and ends the cycle normally after the last one.
ProceedsThroughSnapshot(id) ==
    /\ tasks'[id].st = "alive"
    /\ tasks'[id].cyc = tasks[id].cyc
    /\ IF Len(tasks[id].todo) > 1
       THEN /\ tasks'[id].pc = "fetch"
            /\ tasks'[id].todo = Tail(tasks[id].todo)
       ELSE /\ tasks'[id].pc = "sleep"
            /\ tasks'[id].turn \in {"data", "quiet"}

\* C14: whatever the answer for one symbol of a poll cycle is (a failed
\* request, an unparsable answer, a tick whose conversion fails), the cycle
\* goes on to every other symbol of its snapshot and ends normally, the task
\* stays alive, the answer touches the ticks of no other symbol, and a tick
\* emitted earlier or later in the cycle still counts as data received.
C14_SymbolFailureIsolated ==
    [][\A id \in TaskIds :
         HandlesResponse(id) =>
           LET symbol == Head(tasks[id].todo)
               got == tasks[id].received \/ emitted' # emitted
           IN  /\ ProceedsThroughSnapshot(id)
               /\ \A s \in Symbols \ {symbol} :
                     /\ emitted'[s] = emitted[s]
                     /\ lastTickTimes'[s] = lastTickTimes[s]
               /\ IF Len(tasks[id].todo) > 1
                  THEN tasks'[id].received = got
                  ELSE tasks'[id].turn = (IF got THEN "data" ELSE "quiet")]_vars

\* The first cycle over both symbols has ended with data: the conversion of
\* the EURUSD tick failed (its time was recorded, nothing was emitted) and the
\* XAUUSD tick was emitted.
C14_Witness ==
    \E id \in TaskIds :
        /\ Alive(id)
        /\ tasks[id].cyc = 1
        /\ tasks[id].pc = "sleep"
        /\ tasks[id].turn = "data"
        /\ lastTickTimes["EURUSD"] > 0
        /\ emitted["EURUSD"] = <<>>
        /\ Len(emitted["XAUUSD"]) = 1

\* --- C15
\* C15: a subscribe or unsubscribe of a quote symbol while a cycle is
\* suspended at its await leaves the cycle's snapshot as it is, and the cycle
\* then visits every symbol of the snapshot, subscribed or not, and ends
\* normally: it neither raises nor skips a symbol.
C15_SnapshotIteration ==
    [][\A id \in TaskIds :
         /\ (Alive(id) /\ tasks[id].pc = "fetch" /\ subQuotes' # subQuotes) =>
               tasks'[id] = tasks[id]
         /\ HandlesResponse(id) =>
               /\ ProceedsThroughSnapshot(id)
               /\ tasks'[id].turn # "raised"]_vars

\* The first cycle, snapshot taken over both symbols, has handled EURUSD and
\* is suspended at the request for XAUUSD, which is no longer subscribed.
C15_Witness ==
    \E id \in TaskIds :
        /\ Alive(id)
        /\ tasks[id].cyc = 1
        /\ tasks[id].pc = "fetch"
        /\ tasks[id].todo = <<"XAUUSD">>
        /\ subQuotes = {"EURUSD"}
        /\ Len(emitted["EURUSD"]) = 1

\* --- C16
\* C16: from the moment its cancellation is requested, a polling task issues
\* no request and emits no tick: all it does is end, at the suspension point
\* it was cancelled at.
C16_CancelledTaskIsSilent ==
    [][\A id \in TaskIds :
         (Alive(id) /\ tasks[id].cancel) =>
           /\ emitted' = emitted
           /\ lastTickTimes' = lastTickTimes
           /\ \/ tasks'[id] = tasks[id]
              \/ tasks'[id] = [DoneTask EXCEPT !.pc = tasks[id].pc]]_vars

\* A task has ended by cancellation in its sleep after a cycle that emitted
\* the EURUSD tick, while XAUUSD, subscribed and cached, had a tick to come.
C16_Witness ==
    \E id \in TaskIds :
        /\ tasks[id].st = "done"
        /\ tasks[id].pc = "sleep"
        /\ emitted["EURUSD"] = <<1000>>
        /\ emitted["XAUUSD"] = <<>>
        /\ "XAUUSD" \in subQuotes
        /\ "XAUUSD" \in cache

\* --- C17
SuccessCodes == {RetCodeDone, RetCodePlaced}

\* C17: for an answer of the broker that carries a return code, _submit_order
\* reports the order accepted exactly when the code is DONE or PLACED, and
\* rejected for every other code, the reason being the broker's comment when
\* the answer has one.
C17_AcceptedIffSuccessCode ==
    (xPc = "returned" /\ xResponse.kind = "result") =>
        IF xResponse.retcode \in SuccessCodes
        THEN xEvents = <<[event |-> "accepted", reason |-> ""]>>
        ELSE /\ Len(xEvents) = 1
             /\ xEvents[1].event = "rejected"
             /\ xResponse.comment => xEvents[1].reason = "comment"

LookupKinds == {"MARKET", "LIMIT", "STOP_MARKET"}
Lookup(side, kind) ==
    CASE side = "BUY" /\ kind = "MARKET" -> OrderTypeBuy
      [] side = "SELL" /\ kind = "MARKET" -> OrderTypeSell
      [] side = "BUY" /\ kind = "LIMIT" -> OrderTypeBuyLimit
      [] side = "SELL" /\ kind = "LIMIT" -> OrderTypeSellLimit
      [] side = "BUY" /\ kind = "STOP_MARKET" -> OrderTypeBuyStop
      [] side = "SELL" /\ kind = "STOP_MARKET" -> OrderTypeSellStop

\* C19: _convert_order_type yields the entry of the lookup for every side and
\* every kind of the lookup, and the type field of the request _submit_order
\* sends for such an order is that entry.
C19_TypeFollowsLookup ==
    /\ \A side \in OrderSides, kind \in LookupKinds :
          ConvertOrderType(side, kind) = Lookup(side, kind)
    /\ (xPc # "idle" /\ xOrder.kind \in LookupKinds) =>
          xRequest.type = Lookup(xOrder.side, xOrder.kind)

\* The request for a SELL stop order is in flight with type SELL_STOP.
C19_Witness ==
    /\ xPc = "await"
    /\ xOrder = [side |-> "SELL", kind |-> "STOP_MARKET"]
    /\ xRequest.type = OrderTypeSellStop

\* --- C20
PendingTypes == {OrderTypeBuyLimit, OrderTypeSellLimit,
                 OrderTypeBuyStop, OrderTypeSellStop}

\* C20: the request _submit_order sends carries action DEAL for a market
\* order and action PENDING when its type is a pending type.
C20_PendingTypeNeverDeal ==
    xPc # "idle" =>
        /\ xOrder.kind = "MARKET" => xRequest.action = TradeActionDeal
        /\ xRequest.type \in PendingTypes => xRequest.action = TradeActionPending

\* --- C21
\* The fetched order record carries the three required fields.
HasRequiredOrderFields(r) == r.symbol # "" /\ r.ticket # Absent /\ r.status # Absent

\* C21: _parse_order_status_report maps every status code of Mt5OrderState
\* (0 to 9) to a report and raises only for a code outside the enumeration:
\* an order record with its required fields parses exactly when its status
\* is one of the ten codes.
C21_StatusMappingTotal ==
    rKind = "order" =>
        \A i \in 1..Len(rFetched) :
            HasRequiredOrderFields(rFetched[i]) =>
                (ParseOrderStatusReport(rFetched[i]).ok
                    <=> rFetched[i].status \in OrderStates)

\* --- C22
\* The type codes that name a side: the buy and sell order types 0 to 7, the
\* deal types BUY and SELL, the position types BUY and SELL.
SideCodes(kind) == IF kind = "order" THEN 0..7 ELSE {0, 1}

\* C22: no report is returned for a broker record whose type code is absent
\* or names no side; such a record makes the generator raise.
C22_SideNeverDefaulted ==
    rPc \in {"returned", "awaitHistory"} =>
        \A i \in 1..Len(rFetched) : rFetched[i].type \in SideCodes(rKind)

\* --- C25
\* C25: a generator that returns has built one report per fetched record and
\* every fetched record carried its symbol, its ticket and, for an order, its
\* status; a generator that raises returns no report.
C25_ReportsCompleteOrRaise ==
    /\ rPc = "raised" => rReports = <<>>
    /\ rPc = "returned" =>
          /\ Len(rReports) = Len(rFetched)
          /\ \A i \in 1..Len(rFetched) :
                /\ rReports[i].ok
                /\ rFetched[i].symbol # ""
                /\ rFetched[i].ticket # Absent
                /\ rKind = "order" => rFetched[i].status # Absent

\* C23: a cancel or a modify whose command carries no venue order id fails
\* with an error and hands no request to the broker, in both execution
\* clients.
C23_NoOrderIdNoRequest ==
    (cOp \in {"cancel", "modify"} /\ cCmds = <<Absent>>)
        => (cPc = "raised" /\ cError = "command" /\ cSent = <<>>)

C23_Witness ==
    /\ cOp = "modify"
    /\ cClient = "adapter"
    /\ cCmds = <<Absent>>
    /\ cPc = "raised"
    /\ cSent = <<>>

\* The single-order REMOVE requests for a list of order ids.
RemoveRequests(ids) ==
    [i \in 1..Len(ids) |-> [action |-> TradeActionRemove, order |-> ids[i]]]

\* The tickets of the fetched open orders whose symbol is that of the command.
TicketsOfSymbol ==
    LET OfSymbol(o) == o.symbol = cSymbol
        matching == SelectSeq(cOrders, OfSymbol)
    IN  [i \in 1..Len(matching) |-> matching[i].ticket]

IsPrefix(s, t) == Len(s) <= Len(t) /\ \A i \in 1..Len(s) : s[i] = t[i]

\* cancel-all for an instrument: the requests sent are, at every moment, the
\* first REMOVE requests for the open orders of its symbol, one each and none
\* for another symbol, and all of them once the handler returns.
CancelAllPerMatchingOrder ==
    (cOp = "cancel_all" /\ cSymbol # "")
        => /\ IsPrefix(cSent, RemoveRequests(TicketsOfSymbol))
           /\ cPc = "returned" => cSent = RemoveRequests(TicketsOfSymbol)

\* C24 as stated: cancel-all as above, and a batch cancel in which no request
\* raised has sent one REMOVE request per cancel command, in batch order.
C24_OneRemovePerOrder ==
    /\ CancelAllPerMatchingOrder
    /\ (cOp = "batch" /\ cPc \in {"returned", "raised"} /\ cError # "request")
          => cSent = RemoveRequests(cCmds)

\* C24: cancel-all as above; a batch cancel sends, in batch order, one REMOVE
\* request per cancel command, all of them when no request raised and every
\* command of the batch carries a venue order id. A command without one
\* raises and ends the batch.
C24_OneRemovePerOrderWithId ==
    /\ CancelAllPerMatchingOrder
    /\ cOp = "batch" => IsPrefix(cSent, RemoveRequests(cCmds))
    /\ (/\ cOp = "batch"
        /\ cPc \in {"returned", "raised"}
        /\ cError # "request"
        /\ \A i \in 1..Len(cCmds) : cCmds[i] # Absent)
          => cSent = RemoveRequests(cCmds)

\* A cancel-all for EURUSD has returned with one order of each symbol open.
C24_Witness ==
    /\ cOp = "cancel_all"
    /\ cSymbol = "EURUSD"
    /\ cPc = "returned"
    /\ Len(cOrders) = 2
    /\ Len(cSent) = 1
    /\ \E i \in 1..2 : cOrders[i].symbol = "XAUUSD"

\* C26: _parse_response yields None for an empty or null input, a remote
\* error carrying the message for an object with an "error" key, the "result"
\* field of an object that has one, the whole payload for a payload without
\* the result envelope, and a parse error (never absence) for malformed JSON.
C26_ParseResponseCases ==
    jPc = "parsed" =>
        /\ jResponse.form \in {"none", "empty"} => jParsed.kind = "none"
        /\ (jResponse.form = "object" /\ jResponse.error # Absent)
              => (jParsed.kind = "raise RuntimeError" /\ jParsed.message = jResponse.error)
        /\ (jResponse.form = "object" /\ jResponse.error = Absent /\ jResponse.result # Absent)
              => (jParsed.kind = "result" /\ jParsed.value = jResponse.result)
        /\ (jResponse.form = "object" /\ jResponse.error = Absent /\ jResponse.result = Absent)
              => jParsed.kind = "payload"
        /\ jResponse.form = "malformed"
              => jParsed.kind \in {"raise JSONDecodeError", "raise ValueError"}

\* The symbol data have a name, no currency fields, and every required field
\* under its own name.
NamedAndComplete(d) ==
    /\ d.name # <<>>
    /\ d.currency_base = "" /\ d.currency_profit = ""
    /\ d.digits # Absent /\ d.point # Absent
    /\ d.volume_min # Absent /\ d.volume_max # Absent
    /\ d.volume_step # NoStep

\* C27: symbol data with a name, no currency fields and all required fields
\* yield base = the first 3 characters of the name, quote = the next 3,
\* price_precision = digits and size_precision = the number of fractional
\* digits of volume_step (for a whole float step, 0 or the 1 of "1.0").
C27_InstrumentFromName ==
    NamedAndComplete(iData) =>
        /\ iResult.ok
        /\ iResult.base = SubSeq(iData.name, 1, 3)
        /\ iResult.quote = SubSeq(iData.name, 4, 6)
        /\ iResult.price_precision = iData.digits
        /\ \/ iResult.size_precision = iData.volume_step.exp
           \/ /\ iData.volume_step.float
              /\ iData.volume_step.exp = 0
              /\ iResult.size_precision = 1

\* The required fields that are missing under their own name.
MissingByName(d) ==
    {f \in {"digits", "point", "volume_min", "volume_max"} : d[f] = Absent}
        \cup (IF d.volume_step = NoStep THEN {"volume_step"} ELSE {})

\* The required fields that are missing under every name the parser reads
\* them from.
MissingEveryName(d) ==
    (MissingByName(d) \ {"volume_min", "volume_max"})
        \cup (IF d.volume_low = Absent /\ d.volume_min = Absent THEN {"volume_min"} ELSE {})
        \cup (IF d.volume_high = Absent /\ d.volume_max = Absent THEN {"volume_max"} ELSE {})

\* A load of named symbol data that lack one of `missing` fails with an error
\* naming a missing field and adds nothing to the provider.
LoadFailsNaming(missing) ==
    (iClock' = iClock /\ iData'.name # <<>> /\ missing # {})
        => /\ ~iResult'.ok
           /\ iResult'.error \in missing
           /\ iResult'.price_precision = Absent
           /\ iResult'.size_precision = Absent
           /\ iInstruments' = iInstruments

C29_ParseInstrumentPure ==
    iPrev # NoInstrument => iResult = iPrev

\* C30: when a step of a data client's connect sequence has failed, the
\* exception has propagated to the caller, no later step of the sequence was
\* started, and the client is not marked connected.
C30_ConnectFailureAborts ==
    nFailed # "" =>
        /\ nPc = "raised"
        /\ nExecuted[Len(nExecuted)] = nFailed
        /\ ~nConnected

\* C31: skeleton data client: a successful connect() has called login,
\* websocket connect and authenticate once each in that order and left the
\* client connected; after a disconnect() has returned the client is not
\* connected, also when the websocket disconnect failed; the disconnect was
\* requested once when the client was connected and nothing was called when
\* it was not.
C31_ConnectDisconnectLifecycle ==
    nClient = "skeleton" =>
        /\ (nPc = "returned" /\ nDisconnect = "")
              => /\ nExecuted = <<"login", "ws_connect", "ws_authenticate">>
                 /\ nConnected
        /\ nDisconnect # "" => ~nConnected

\* C32: skeleton execution client: once connect() has returned the client is
\* connected, and a _submit_order issued after it has forwarded the order to
\* the HTTP client's submit_order exactly once without raising.
C32_SubmitAfterConnect ==
    /\ kConnects > 0 => kConnected
    /\ (kPc # "idle" /\ kAfterConnect) => (kPc = "returned" /\ kForwarded = 1)

\* C33: _subscribe_order_book_deltas hands its caller an explicit
\* "unsupported" outcome (more than a log line), and changes no subscription
\* set, starts no polling task and sends no request.
C33_DeltasUnsupportedSignalled ==
    [][oSignal' # oSignal =>
          /\ oSignal' = "unsupported"
          /\ UNCHANGED <<subQuotes, subTrades, subBars, pollTask, tasks, nextTask>>]_vars

\* The time_msc of the last quote emitted for the symbol, 0 when there is none.
LastEmitted(s) == IF emitted[s] = <<>> THEN 0 ELSE emitted[s][Len(emitted[s])]

\* C34: the last-seen time of a symbol advances only together with an
\* emission: the time stored for a symbol is the time_msc of the last quote
\* emitted for it, so a tick whose conversion failed is not marked as seen.
C34_LastSeenIsLastEmitted ==
    \A s \in Symbols : lastTickTimes[s] = LastEmitted(s)

\* C35: while a symbol is not quote-subscribed (its unsubscribe has returned
\* and no subscribe followed), no quote is emitted for it and no tick request
\* is sent for it, also when the unsubscribe came while a poll cycle was
\* suspended at an await.
C35_UnsubscribedSymbolSilent ==
    [][\A s \in Symbols :
         (s \notin subQuotes /\ s \notin subQuotes') =>
           /\ emitted'[s] = emitted[s]
           /\ \A id \in TaskIds :
                 (/\ tasks'[id].st = "alive"
                  /\ tasks'[id].pc = "fetch"
                  /\ Head(tasks'[id].todo) = s) => tasks'[id] = tasks[id]]_vars

\* C36: no request of _submit_order carries a market type (BUY or SELL) for
\* an order whose kind is not MARKET: for a kind outside the lookup no
\* order_send request is made at all.
C36_NoMarketTypeForOtherKinds ==
    (xPc # "idle" /\ xOrder.kind # "MARKET") =>
        /\ xRequest.type \notin {OrderTypeBuy, OrderTypeSell}
        /\ xOrder.kind \notin LookupKinds => xRequest = NoRequest

\* C37: a polling task ends only by cancellation: a loop turn that raises
\* leaves the task alive and asleep for the base interval, ready for the next
\* cycle, with current_interval and the subscription sets as they were.
C37_LoopSurvivesExceptions ==
    [][\A id \in TaskIds :
         /\ (tasks[id].st = "alive" /\ tasks'[id].st # "alive") => tasks[id].cancel
         /\ (tasks'[id] # tasks[id] /\ tasks'[id].turn = "raised") =>
               /\ tasks'[id].st = "alive"
               /\ tasks'[id].pc = "sleep"
               /\ tasks'[id].sleepMs = BaseInterval
               /\ tasks'[id].interval = tasks[id].interval
               /\ UNCHANGED <<subQuotes, subTrades, subBars>>]_vars

\* The second turn of a task raised after its first cycle had adapted the
\* interval: the task is alive, asleep for the base interval, and
\* current_interval is still the adapted one.
C37_Witness ==
    \E id \in TaskIds :
        /\ Alive(id)
        /\ ~tasks[id].cancel
        /\ tasks[id].cyc = 2
        /\ tasks[id].pc = "sleep"
        /\ tasks[id].turn = "raised"
        /\ tasks[id].sleepMs = BaseInterval
        /\ tasks[id].interval # BaseInterval

\* The loop of a range fetch has ended: normally, or by the exception of a
\* chunk request of Mt5Client.
FetchEnded == fPc \in {"done", "raised"}

\* C38: a range fetch with start < end ends after finitely many chunk
\* requests whatever the remote answers: through every turn of the loop the
\* cursor strictly increases and stays within the range, no chunk is
\* requested twice, and a fetch that was begun eventually ends.
C38_RangeFetchTerminates ==
    /\ [][/\ fCursor' # fCursor => (fPc # "idle" => fCursor' > fCursor)
          /\ (fPc = "await" /\ fPc' = "sleep") => fCursor' > fCursor
          /\ fCursor' <= fEnd'
          /\ \A i, j \in 1..Len(fRequests') : i # j => fRequests'[i] # fRequests'[j]]_vars
    /\ (fPc \in {"await", "sleep"}) ~> FetchEnded

\* A fetch over three chunks has ended although its chunk requests failed.
C38_Witness ==
    /\ fPc = "done"
    /\ Len(fRequests) = 3
    /\ fCursor = fEnd
    /\ \E i \in 1..3 : fOutcomes[i] = "exception"
    /\ \E i \in 1..3 : fOutcomes[i] = "error"

\* --- C39
\* A cycle of task id is under way and EURUSD is still to be requested in it.
PendingIn(id, symbol) ==
    /\ Alive(id)
    /\ ~tasks[id].cancel
    /\ tasks[id].pc = "fetch"
    /\ \E i \in 1..Len(tasks[id].todo) : tasks[id].todo[i] = symbol

\* Once a cycle holds EURUSD in its snapshot, a further quote for EURUSD is
\* emitted, whatever the answers for the other symbol are.
C39_CycleEmits ==
    \A n \in 0..MaxCycles :
        ((\E id \in TaskIds : PendingIn(id, "EURUSD"))
            /\ Len(emitted["EURUSD"]) = n)
          ~> (Len(emitted["EURUSD"]) > n)

\* Every cycle that starts while EURUSD is subscribed requests EURUSD.
C39_CycleRequestsSubscribed ==
    [][\A id \in TaskIds :
         (tasks[id].pc \in {"start", "sleep"} /\ tasks'[id].pc = "fetch"
            /\ "EURUSD" \in subQuotes) => PendingIn(id, "EURUSD")']_vars

\* While EURUSD is subscribed an uncancelled polling task exists.
C39_SubscribedIsPolled ==
    [](("EURUSD" \in subQuotes) =>
         \E id \in TaskIds : Alive(id) /\ ~tasks[id].cancel)

\* C39: while EURUSD stays quote-subscribed and cached, the polling task is
\* not cancelled and the remote has a newer tick for it at every request, a
\* quote for EURUSD is emitted after each new remote tick, within one sleep of
\* at most max_interval plus one cycle, whatever the other subscribed symbols
\* answer: every sleep of the task is at most max_interval, every cycle
\* requests EURUSD, and a cycle that holds EURUSD emits a quote for it.
C39_SubscribedSymbolNotStarved ==
    /\ [](\A id \in TaskIds :
            (Alive(id) /\ tasks[id].pc = "sleep" /\ "EURUSD" \in subQuotes) =>
                RLeq(tasks[id].sleepMs, Rat(MaxIntervalMs, 1)))
    /\ C39_SubscribedIsPolled
    /\ C39_CycleRequestsSubscribed
    /\ C39_CycleEmits

\* --- C40
\* C40: after quotes and bars of a symbol were subscribed over the websocket,
\* unsubscribing the bars while connected and while the quote subscription is
\* held sends no unsubscribe of the symbol's quote stream.
C40_BarsUnsubscribeKeepsQuotes ==
    [][\A s \in StreamSymbols :
         (/\ nConnected
          /\ Len(wSent) >= 2
          /\ wSent[1] = SubscribeCall("quote", s)
          /\ wSent[2] = SubscribeCall("bars", s)
          /\ <<"bars", s>> \in wHeld
          /\ <<"bars", s>> \notin wHeld'
          /\ <<"quote", s>> \in wHeld') =>
            \/ wSent' = wSent
            \/ wSent'[Len(wSent')] # [op |-> "unsubscribe", arg |-> "quote:" \o s]]_vars

====
